---- MODULE Spec2Model ----
(***************************************************************************)
(* A model of the storage layer of bredis: the StorageValue encoding, the  *)
(* Storage contract and its three backends                                 *)
(*   Bredis    - in-memory HashMap behind one RwLock (storages/bredis.rs)  *)
(*   Rocksdb   - OptimisticTransactionDB            (storages/rocksdb.rs)  *)
(*   SurrealKV - versioned store, explicit commits  (storages/surrealkv.rs)*)
(* Bytes are naturals 0..255, byte strings are sequences of bytes.         *)
(* Integers of the model stay far inside the i64 range.                    *)
(***************************************************************************)
EXTENDS Integers, Sequences, FiniteSets

\* ------------------------------------------------------------------ bounds
\* The clock value at construction (an epoch instant, larger than any ttl
\* a caller of the model requests).
StartTime == 10
\* How many seconds the clock may advance.
MaxTicks == 1
\* How many contract calls one behaviour of Spec issues.
MaxCalls == 3
\* How many contract calls one behaviour of SpecDeep issues.
MaxDeepCalls == 4
\* How many HTTP requests one behaviour of SpecHttp issues.
MaxHttpCalls == 3
\* How many contract calls precede the concurrent callers of SpecConc.
MaxSetupCalls == 1
\* How many calls each concurrent caller of SpecConc issues.
MaxProcCalls == 1
MaxParSetupCalls == 2
MaxLifeCalls == 1
MaxHandles == 2
MaxLifeSteps == 4

\* ------------------------------------------------------- program constants
PREFIX_SEARCH_ENDING == 255

\* --------------------------------------------------------------- the inputs
\* "a1", "b": a key under the prefix "a" and one that sorts after it.
Keys == {<<97, 49>>, <<98>>}
\* "", "a"
Prefixes == {<<>>, <<97>>}
\* ttl values a caller requests: negative (no expiry), zero, finite.
Ttls == {-2, 0, 1}
\* The payloads a caller stores: the string "b" (also the bytes of a key),
\* the counter text "1", and Integer entries whose bytes are no decimal text
\* ("x") or no UTF-8 at all (0xFF).
Payloads ==
  { [value_type |-> "String", value |-> <<98>>],
    [value_type |-> "Integer", value |-> <<49>>],
    [value_type |-> "Integer", value |-> <<120>>],
    [value_type |-> "Integer", value |-> <<255>>] }
Deltas == {1, 2}
\* The narrower inputs of the longer call sequences of SpecDeep.
DeepTtls == {-2}
DeepDeltas == {1}
\* Option<i64>: the empty sequence is None, <<d>> is Some(d).
Defaults == {<<>>, <<10>>}
\* The update_ttl and set calls that run beside the counter calls in
\* SpecRace: a ttl of one second and the counter text "7".
RaceTtls == {1}
RacePayloads == {[value_type |-> "Integer", value |-> <<55>>]}
\* The requests of SpecHttp: the ttl and the value (IntOrString) of a SetRequest.
HttpTtls == {-1, 1}
HttpValues ==
  {[int |-> TRUE, n |-> 1, s |-> <<>>], [int |-> TRUE, n |-> 255, s |-> <<>>],
   [int |-> FALSE, n |-> 0, s |-> <<98>>]}

\* ---------------------------------------------------------------- bytes
IsPrefixOf(p, k) == Len(p) <= Len(k) /\ SubSeq(k, 1, Len(p)) = p

RECURSIVE BytesLess(_, _)
\* Lexicographic order on byte strings, the key order of the ordered engines.
BytesLess(a, b) ==
  IF b = <<>> THEN FALSE
  ELSE IF a = <<>> THEN TRUE
  ELSE IF Head(a) # Head(b) THEN Head(a) < Head(b)
  ELSE BytesLess(Tail(a), Tail(b))

BytesLeq(a, b) == a = b \/ BytesLess(a, b)

RECURSIVE SortedSeq(_)
\* The keys of a set in ascending byte order.
SortedSeq(S) ==
  IF S = {} THEN <<>>
  ELSE LET m == CHOOSE x \in S : \A y \in S : BytesLeq(x, y)
       IN <<m>> \o SortedSeq(S \ {m})

Range(s) == {s[i] : i \in 1..Len(s)}

\* String::from_utf8 on the byte strings of the model: bytes below 0x80 are
\* ASCII; 0xFF never occurs in UTF-8.
IsUtf8(bytes) == \A i \in 1..Len(bytes) : bytes[i] < 128

\* ------------------------------------------------------- decimal text
RECURSIVE DigitsOf(_)
DigitsOf(n) == IF n < 10 THEN <<48 + n>> ELSE DigitsOf(n \div 10) \o <<48 + (n % 10)>>

\* i64::to_string
to_string(n) == IF n < 0 THEN <<45>> \o DigitsOf(-n) ELSE DigitsOf(n)

IsDigit(b) == b >= 48 /\ b <= 57

RECURSIVE DigitsValue(_)
DigitsValue(ds) ==
  IF ds = <<>> THEN 0
  ELSE 10 * DigitsValue(SubSeq(ds, 1, Len(ds) - 1)) + (ds[Len(ds)] - 48)

\* str::parse::<i64>: an optional sign followed by at least one digit.
ParseI64(bytes) ==
  LET signed == bytes # <<>> /\ Head(bytes) \in {43, 45}
      ds     == IF signed THEN Tail(bytes) ELSE bytes
  IN IF ds = <<>> \/ \E i \in 1..Len(ds) : ~IsDigit(ds[i])
     THEN [ok |-> FALSE, val |-> 0]
     ELSE [ok |-> TRUE,
           val |-> IF signed /\ Head(bytes) = 45 THEN -DigitsValue(ds) ELSE DigitsValue(ds)]

\* ------------------------------------------------------- StorageValue
StorageValue(t, ttl, bytes) == [value_type |-> t, ttl |-> ttl, value |-> bytes]

\* Byte i (from 1, least significant first) of a natural below 2^31.
NatByte(n, i) ==
  IF i = 1 THEN n % 256
  ELSE IF i = 2 THEN (n \div 256) % 256
  ELSE IF i = 3 THEN (n \div 65536) % 256
  ELSE IF i = 4 THEN (n \div 16777216) % 256
  ELSE 0

\* Little-endian bytes of an integer in two's complement, w bytes wide.
LeBytes(n, w) ==
  IF n >= 0 THEN [i \in 1..w |-> NatByte(n, i)]
  ELSE [i \in 1..w |-> 255 - NatByte(-n - 1, i)]

\* The integer of little-endian two's complement bytes. The model's integers
\* are below 2^31 in size: the bytes above the fourth repeat the sign.
LeValue(bs) ==
  IF bs[Len(bs)] >= 128
  THEN -((255 - bs[1]) + 256 * (255 - bs[2]) + 65536 * (255 - bs[3])
          + 16777216 * (255 - bs[4])) - 1
  ELSE bs[1] + 256 * bs[2] + 65536 * bs[3] + 16777216 * bs[4]

\* bincode::serialize: u32 variant index, i64 ttl, u64 length, the bytes.
to_binary(v) ==
  LeBytes(IF v.value_type = "String" THEN 0 ELSE 1, 4)
    \o LeBytes(v.ttl, 8) \o LeBytes(Len(v.value), 8) \o v.value

\* bincode::deserialize
from_binary(data) ==
  [value_type |-> IF LeValue(SubSeq(data, 1, 4)) = 0 THEN "String" ELSE "Integer",
   ttl        |-> LeValue(SubSeq(data, 5, 12)),
   value      |-> SubSeq(data, 21, 20 + LeValue(SubSeq(data, 13, 20)))]

\* StorageValue::get_integer_value
get_integer_value(v) ==
  IF v.value_type # "Integer" THEN [ok |-> FALSE, err |-> "InvalidValueType", val |-> 0]
  ELSE IF ~IsUtf8(v.value) THEN [ok |-> FALSE, err |-> "InternalError", val |-> 0]
  ELSE LET p == ParseI64(v.value)
       IN IF p.ok THEN [ok |-> TRUE, err |-> "None", val |-> p.val]
          ELSE [ok |-> FALSE, err |-> "InternalError", val |-> 0]

\* ------------------------------------------------------- call results
\* Result<T, DatabaseError> of a contract call, or the call aborting (a panic).
\*   val  - Option<StorageValue> as a sequence of at most one value
\*   n    - an i64 result
\*   keys - Vec<String>
Res(kind, err, val, n, keys) ==
  [kind |-> kind, err |-> err, val |-> val, n |-> n, keys |-> keys]
OkUnit == Res("Ok", "None", <<>>, 0, <<>>)
OkNone == OkUnit
OkSome(v) == Res("Ok", "None", <<v>>, 0, <<>>)
OkInt(n) == Res("Ok", "None", <<>>, n, <<>>)
OkKeys(ks) == Res("Ok", "None", <<>>, 0, ks)
Err(e) == Res("Err", e, <<>>, 0, <<>>)
Panic == Res("Panic", "None", <<>>, 0, <<>>)
NoCall == Res("NoCall", "None", <<>>, 0, <<>>)

\* ---------------------------------------------------------------- maps
Has(store, key) == key \in DOMAIN store
Insert(store, key, v) ==
  [x \in DOMAIN store \cup {key} |-> IF x = key THEN v ELSE store[x]]
Remove(store, key) == [x \in DOMAIN store \ {key} |-> store[x]]
EmptyStore == [x \in {} |-> <<>>]

\* ============================================================ Bredis
\* The store is HashMap<String, StorageValue>; every method below runs inside
\* one acquisition of the RwLock (see BredisCall).

\* Bredis::get: get_mut hands out the stored entry, so `value.ttl -= now`
\* rewrites the entry in the map.
Bredis_get(store, key, now) ==
  IF Has(store, key)
  THEN LET value == store[key]
       IN IF value.ttl < 0
          THEN [store |-> store, res |-> OkSome(value)]
          ELSE LET value2 == [value EXCEPT !.ttl = value.ttl - now]
               IN IF value2.ttl < 0
                  THEN [store |-> Remove(store, key), res |-> OkNone]
                  ELSE [store |-> Insert(store, key, value2), res |-> OkSome(value2)]
  ELSE [store |-> store, res |-> OkNone]

\* Bredis::set
Bredis_set(store, key, value, now) ==
  LET value2 == IF value.ttl < 0 THEN [value EXCEPT !.ttl = -1]
                ELSE [value EXCEPT !.ttl = value.ttl + now]
  IN [store |-> Insert(store, key, value2), res |-> OkUnit]

\* Bredis::get_all_keys: keys().filter(starts_with). A HashMap iterates in an
\* arbitrary order; the model lists the keys in byte order.
Bredis_get_all_keys(store, prefix) ==
  [store |-> store,
   res |-> OkKeys(SortedSeq({k \in DOMAIN store : IsPrefixOf(prefix, k)}))]

\* Bredis::get_ttl
Bredis_get_ttl(store, key, now) ==
  IF Has(store, key)
  THEN LET value == store[key]
           ttl == value.ttl - now
       IN IF value.ttl < 0 THEN [store |-> store, res |-> OkInt(-1)]
          ELSE IF ttl > 0 THEN [store |-> store, res |-> OkInt(ttl)]
          ELSE [store |-> Remove(store, key), res |-> Err("ValueNotFound")]
  ELSE [store |-> store, res |-> Err("ValueNotFound")]

\* Bredis::update_ttl
Bredis_update_ttl(store, key, ttl, now) ==
  IF Has(store, key)
  THEN [store |-> Insert(store, key,
                         [store[key] EXCEPT !.ttl = IF ttl < 0 THEN -1 ELSE now + ttl]),
        res |-> OkUnit]
  ELSE [store |-> store, res |-> Err("ValueNotFound")]

\* Bredis::increment: entry(key).or_insert_with(default or 0), then the checks
\* on the entry now in the map; parse::<i64>().unwrap() aborts the call.
Bredis_increment(store, key, increment_value, default_value) ==
  LET inserted ==
        IF Has(store, key) THEN store
        ELSE Insert(store, key,
                    StorageValue("Integer", -1,
                      to_string(IF default_value = <<>> THEN 0 ELSE default_value[1])))
      value == inserted[key]
      parsed == ParseI64(value.value)
      new_value == parsed.val + increment_value
      value2 == [value EXCEPT !.value = to_string(new_value)]
  IN IF value.value_type # "Integer"
     THEN [store |-> inserted, res |-> Err("InvalidValueType")]
     ELSE IF ~IsUtf8(value.value)
     THEN [store |-> inserted, res |-> Err("InternalError")]
     ELSE IF ~parsed.ok
     THEN [store |-> inserted, res |-> Panic]
     ELSE [store |-> Insert(inserted, key, value2), res |-> OkSome(value2)]

\* Bredis::decrement
Bredis_decrement(store, key, decrement_value, default_value) ==
  LET inserted ==
        IF Has(store, key) THEN store
        ELSE Insert(store, key,
                    StorageValue("Integer", -1,
                      to_string(IF default_value = <<>> THEN 0 ELSE default_value[1])))
      value == inserted[key]
      parsed == ParseI64(value.value)
      new_value == parsed.val - decrement_value
      value2 == [value EXCEPT !.value = to_string(new_value)]
  IN IF value.value_type # "Integer"
     THEN [store |-> inserted, res |-> Err("InvalidValueType")]
     ELSE IF ~IsUtf8(value.value)
     THEN [store |-> inserted, res |-> Err("InternalError")]
     ELSE IF ~parsed.ok
     THEN [store |-> inserted, res |-> Panic]
     ELSE [store |-> Insert(inserted, key, value2), res |-> OkSome(value2)]

\* Bredis::delete
Bredis_delete(store, key) == [store |-> Remove(store, key), res |-> OkUnit]

\* Bredis::delete_prefix: retain(|key| !key.starts_with(prefix))
Bredis_delete_prefix(store, prefix) ==
  [store |-> [x \in {k \in DOMAIN store : ~IsPrefixOf(prefix, k)} |-> store[x]],
   res |-> OkUnit]

\* self.store.write().unwrap() / read().unwrap(): a lock poisoned by a call
\* that aborted while holding it makes every later acquisition abort.
BredisCall(poisoned, store, out) ==
  IF poisoned
  THEN [store |-> store, res |-> Panic, poisoned |-> TRUE]
  ELSE [store |-> out.store, res |-> out.res, poisoned |-> out.res.kind = "Panic"]

\* ============================================================ Rocksdb
\* The store maps a key to the bincode bytes of its StorageValue. A
\* transaction buffers its writes until commit; dropping it discards them.
EmptyTxn == [puts |-> EmptyStore, dels |-> {}]
TxnPut(txn, key, bytes) ==
  [puts |-> Insert(txn.puts, key, bytes), dels |-> txn.dels \ {key}]
TxnDelete(txn, key) ==
  [puts |-> Remove(txn.puts, key), dels |-> txn.dels \cup {key}]
\* Option<Vec<u8>> read of the committed data
RawGet(store, key) == IF Has(store, key) THEN <<store[key]>> ELSE <<>>
\* txn.commit(): the buffered writes reach the store
TxnCommit(store, txn) ==
  [x \in (DOMAIN store \ txn.dels) \cup DOMAIN txn.puts |->
     IF x \in DOMAIN txn.puts THEN txn.puts[x] ELSE store[x]]
\* a variant in which a transaction that goes out of scope would be committed
TxnDropCommits(store, txn) == TxnCommit(store, txn)
\* a transaction that goes out of scope without commit leaves the store alone
TxnDrop(store, txn) == store

\* The half-open key range [prefix, prefix ++ 0xFF)
InPrefixRange(prefix, k) ==
  BytesLeq(prefix, k) /\ BytesLess(k, Append(prefix, PREFIX_SEARCH_ENDING))

\* Rocksdb::delete_on_ttl: deletes, inside txn, the key named by the VALUE
\* bytes of the entry it is handed.
delete_on_ttl(txn, key) ==
  IF key.ttl <= 0
  THEN [txn |-> TxnDelete(txn, key.value), deleted |-> TRUE]
  ELSE [txn |-> txn, deleted |-> FALSE]

\* Rocksdb::get: the transaction is never committed.
Rocks_get(store, key, now) ==
  LET raw_value == RawGet(store, key)
  IN IF raw_value = <<>> THEN [store |-> store, res |-> OkNone]
     ELSE LET storage_value == from_binary(raw_value[1])
          IN IF storage_value.ttl > -1
             THEN LET sv2 == [storage_value EXCEPT !.ttl = storage_value.ttl - now]
                      d == delete_on_ttl(EmptyTxn, sv2)
                  IN IF d.deleted
                     THEN [store |-> TxnDrop(store, d.txn), res |-> OkNone]
                     ELSE [store |-> TxnDrop(store, d.txn), res |-> OkSome(sv2)]
             ELSE [store |-> store, res |-> OkSome(storage_value)]

RECURSIVE RocksScan(_, _, _, _, _, _)
\* The loop of Rocksdb::get_all_keys over the keys the iterator yields.
\* `see` says whether the iterator observes the deletes the loop itself adds
\* to the transaction's write batch while it runs (the engine leaves that
\* open). Accumulates [txn, keys, panic].
RocksScan(store, todo, now, see, txn, keys) ==
  IF todo = <<>> THEN [txn |-> txn, keys |-> keys, panic |-> FALSE]
  ELSE LET key == Head(todo)
           storage_value == from_binary(store[key])
           sv2 == [storage_value EXCEPT !.ttl = storage_value.ttl - now]
           d == delete_on_ttl(txn, sv2)
       IN IF see /\ key \in txn.dels
          THEN RocksScan(store, Tail(todo), now, see, txn, keys)
          ELSE IF storage_value.ttl > -1 /\ d.deleted
          THEN RocksScan(store, Tail(todo), now, see, d.txn, keys)
          ELSE IF ~IsUtf8(key)
          THEN [txn |-> txn, keys |-> keys, panic |-> TRUE]
          ELSE RocksScan(store, Tail(todo), now, see, txn, Append(keys, key))

\* txn.prefix_iterator(prefix): positions at the first key >= prefix and runs
\* to the end of the key space (no prefix extractor is configured).
prefix_iterator(store, prefix) ==
  SortedSeq({k \in DOMAIN store : BytesLeq(prefix, k)})

\* Rocksdb::get_all_keys: the transaction is never committed.
Rocks_get_all_keys(store, prefix, now, see) ==
  LET r == RocksScan(store, prefix_iterator(store, prefix), now, see, EmptyTxn, <<>>)
  IN [store |-> TxnDrop(store, r.txn),
      res |-> IF r.panic THEN Panic ELSE OkKeys(r.keys)]

\* Rocksdb::delete: self.store.delete(key), written at once
Rocks_delete(store, key) == [store |-> Remove(store, key), res |-> OkUnit]

\* Rocksdb::get_ttl
Rocks_get_ttl(store, key, now) ==
  LET raw_value == RawGet(store, key)
  IN IF raw_value = <<>> THEN [store |-> store, res |-> Err("ValueNotFound")]
     ELSE LET storage_value == from_binary(raw_value[1])
              ttl == storage_value.ttl - now
          IN IF storage_value.ttl <= 0
             THEN [store |-> store, res |-> OkInt(storage_value.ttl)]
             ELSE IF ttl > 0 THEN [store |-> store, res |-> OkInt(ttl)]
             ELSE [store |-> Rocks_delete(store, key).store, res |-> Err("ValueNotFound")]

\* Rocksdb::update_ttl, between txn.get and txn.put: the entry to write
Rocks_update_ttl_body(raw_value, ttl, now) ==
  IF raw_value # <<>>
  THEN [ok |-> TRUE, err |-> "None",
        sv |-> [from_binary(raw_value[1]) EXCEPT !.ttl = IF ttl < 0 THEN -1 ELSE ttl + now]]
  ELSE [ok |-> FALSE, err |-> "ValueNotFound", sv |-> StorageValue("String", -1, <<>>)]

\* Rocksdb::update_ttl
Rocks_update_ttl(store, key, ttl, now) ==
  LET b == Rocks_update_ttl_body(RawGet(store, key), ttl, now)
  IN IF b.ok
     THEN [store |-> TxnCommit(store, TxnPut(EmptyTxn, key, to_binary(b.sv))), res |-> OkUnit]
     ELSE [store |-> store, res |-> Err(b.err)]

\* Rocksdb::set: self.store.put(key, value), written at once
Rocks_set(store, key, value, now) ==
  LET value2 == IF value.ttl < 0 THEN [value EXCEPT !.ttl = -1]
                ELSE [value EXCEPT !.ttl = value.ttl + now]
  IN [store |-> Insert(store, key, to_binary(value2)), res |-> OkUnit]

\* A variant of Rocksdb::increment that would build the incremented entry anew,
\* without expiry, instead of rewriting the bytes of the stored one.
Rocks_increment_body_fresh(raw_value, value, default_value) ==
  IF raw_value # <<>>
  THEN LET storage_value == from_binary(raw_value[1])
           current_value == get_integer_value(storage_value)
       IN IF current_value.ok
          THEN [ok |-> TRUE, err |-> "None",
                sv |-> StorageValue("Integer", -1, to_string(current_value.val + value))]
          ELSE [ok |-> FALSE, err |-> current_value.err, sv |-> storage_value]
  ELSE IF default_value # <<>>
  THEN [ok |-> TRUE, err |-> "None",
        sv |-> StorageValue("Integer", -1, to_string(default_value[1] + value))]
  ELSE [ok |-> FALSE, err |-> "ValueNotFound", sv |-> StorageValue("String", -1, <<>>)]

\* Rocksdb::increment, between txn.get and txn.put: the entry to write
Rocks_increment_body(raw_value, value, default_value) ==
  IF raw_value # <<>>
  THEN LET storage_value == from_binary(raw_value[1])
           current_value == get_integer_value(storage_value)
       IN IF current_value.ok
          THEN [ok |-> TRUE, err |-> "None",
                sv |-> [storage_value EXCEPT !.value = to_string(current_value.val + value)]]
          ELSE [ok |-> FALSE, err |-> current_value.err, sv |-> storage_value]
  ELSE IF default_value # <<>>
  THEN [ok |-> TRUE, err |-> "None",
        sv |-> StorageValue("Integer", -1, to_string(default_value[1] + value))]
  ELSE [ok |-> FALSE, err |-> "ValueNotFound", sv |-> StorageValue("String", -1, <<>>)]

\* Rocksdb::increment
Rocks_increment(store, key, value, default_value) ==
  LET b == Rocks_increment_body(RawGet(store, key), value, default_value)
  IN IF b.ok
     THEN [store |-> TxnCommit(store, TxnPut(EmptyTxn, key, to_binary(b.sv))),
           res |-> OkSome(b.sv)]
     ELSE [store |-> store, res |-> Err(b.err)]

\* Rocksdb::decrement, between txn.get and txn.put: the entry to write
Rocks_decrement_body(raw_value, value, default_value) ==
  IF raw_value # <<>>
  THEN LET storage_value == from_binary(raw_value[1])
           current_value == get_integer_value(storage_value)
       IN IF current_value.ok
          THEN [ok |-> TRUE, err |-> "None",
                sv |-> [storage_value EXCEPT !.value = to_string(current_value.val - value)]]
          ELSE [ok |-> FALSE, err |-> current_value.err, sv |-> storage_value]
  ELSE IF default_value # <<>>
  THEN [ok |-> TRUE, err |-> "None",
        sv |-> StorageValue("Integer", -1, to_string(default_value[1] - value))]
  ELSE [ok |-> FALSE, err |-> "ValueNotFound", sv |-> StorageValue("String", -1, <<>>)]

\* a variant that hands back the entry as it was read, not as it was written
Rocks_decrement_stale(store, key, value, default_value) ==
  LET raw_value == RawGet(store, key)
      b == Rocks_decrement_body(raw_value, value, default_value)
  IN IF b.ok
     THEN [store |-> TxnCommit(store, TxnPut(EmptyTxn, key, to_binary(b.sv))),
           res |-> OkSome(IF raw_value # <<>> THEN from_binary(raw_value[1]) ELSE b.sv)]
     ELSE [store |-> store, res |-> Err(b.err)]

\* Rocksdb::decrement
Rocks_decrement(store, key, value, default_value) ==
  LET b == Rocks_decrement_body(RawGet(store, key), value, default_value)
  IN IF b.ok
     THEN [store |-> TxnCommit(store, TxnPut(EmptyTxn, key, to_binary(b.sv))),
           res |-> OkSome(b.sv)]
     ELSE [store |-> store, res |-> Err(b.err)]

\* Rocksdb::delete_prefix: delete_range_cf(prefix, prefix ++ 0xFF)
Rocks_delete_prefix(store, prefix) ==
  [store |-> [x \in {k \in DOMAIN store : ~InPrefixRange(prefix, k)} |-> store[x]],
   res |-> OkUnit]

\* ============================================================ SurrealKV
\* The store maps a key to the bincode bytes of its StorageValue. Writes of a
\* transaction take effect only when it is committed.

\* SurrealKV::get
Surreal_get(store, key, now) ==
  LET raw_value == RawGet(store, key)
  IN IF raw_value = <<>> THEN [store |-> store, res |-> OkNone]
     ELSE LET value == from_binary(raw_value[1])
              value2 == [value EXCEPT !.ttl = value.ttl - now]
          IN IF value.ttl < 0
             THEN [store |-> store, res |-> OkSome(value)]
             ELSE IF value2.ttl <= 0
             THEN [store |-> TxnDrop(store, TxnDelete(EmptyTxn, key)), res |-> OkNone]
             ELSE [store |-> TxnCommit(store, EmptyTxn), res |-> OkSome(value2)]

\* txn.scan(prefix..end_prefix): the entries of the range, in key order
SurrealRange(store, prefix) ==
  SortedSeq({k \in DOMAIN store : InPrefixRange(prefix, k)})

RECURSIVE SurrealScan(_, _, _, _, _)
\* The loop of SurrealKV::get_all_keys over the scanned entries.
SurrealScan(store, todo, now, txn, keys) ==
  IF todo = <<>> THEN [txn |-> txn, keys |-> keys]
  ELSE LET key == Head(todo)
           value == from_binary(store[key])
           ttl == value.ttl - now
       IN IF value.ttl > -1 /\ ttl <= 0
          THEN SurrealScan(store, Tail(todo), now, TxnDelete(txn, key), keys)
          ELSE SurrealScan(store, Tail(todo), now, txn, Append(keys, key))

\* SurrealKV::get_all_keys
Surreal_get_all_keys(store, prefix, now) ==
  LET r == SurrealScan(store, SurrealRange(store, prefix), now, EmptyTxn, <<>>)
  IN [store |-> TxnCommit(store, r.txn), res |-> OkKeys(r.keys)]

\* SurrealKV::get_ttl
Surreal_get_ttl(store, key, now) ==
  LET raw_value == RawGet(store, key)
  IN IF raw_value = <<>> THEN [store |-> store, res |-> Err("ValueNotFound")]
     ELSE LET value == from_binary(raw_value[1])
              ttl == value.ttl - now
          IN IF value.ttl < 0 THEN [store |-> store, res |-> OkInt(-1)]
             ELSE IF ttl <= 0
             THEN [store |-> TxnDrop(store, TxnDelete(EmptyTxn, key)),
                   res |-> Err("ValueNotFound")]
             ELSE [store |-> TxnCommit(store, EmptyTxn), res |-> OkInt(ttl)]

\* SurrealKV::update_ttl, between txn.get and txn.set: the entry to write
Surreal_update_ttl_body(raw_value, ttl, now) ==
  IF raw_value # <<>>
  THEN [ok |-> TRUE, err |-> "None",
        sv |-> [from_binary(raw_value[1]) EXCEPT !.ttl = IF ttl < 0 THEN -1 ELSE ttl + now]]
  ELSE [ok |-> FALSE, err |-> "ValueNotFound", sv |-> StorageValue("String", -1, <<>>)]

\* SurrealKV::update_ttl
Surreal_update_ttl(store, key, ttl, now) ==
  LET b == Surreal_update_ttl_body(RawGet(store, key), ttl, now)
  IN IF b.ok
     THEN [store |-> TxnCommit(store, TxnPut(EmptyTxn, key, to_binary(b.sv))), res |-> OkUnit]
     ELSE [store |-> store, res |-> Err(b.err)]

\* SurrealKV::set
Surreal_set(store, key, value, now) ==
  LET value2 == IF value.ttl >= 0 THEN [value EXCEPT !.ttl = value.ttl + now]
                ELSE [value EXCEPT !.ttl = -1]
  IN [store |-> TxnCommit(store, TxnPut(EmptyTxn, key, to_binary(value2))), res |-> OkUnit]

\* SurrealKV::increment, between txn.get and txn.set: the entry to write
Surreal_increment_body(raw_value, value, default_value) ==
  IF raw_value # <<>>
  THEN LET storage_value == from_binary(raw_value[1])
           current_value == get_integer_value(storage_value)
       IN IF current_value.ok
          THEN [ok |-> TRUE, err |-> "None",
                sv |-> [storage_value EXCEPT !.value = to_string(current_value.val + value)]]
          ELSE [ok |-> FALSE, err |-> current_value.err, sv |-> storage_value]
  ELSE IF default_value # <<>>
  THEN [ok |-> TRUE, err |-> "None",
        sv |-> StorageValue("Integer", -1, to_string(default_value[1] + value))]
  ELSE [ok |-> FALSE, err |-> "ValueNotFound", sv |-> StorageValue("String", -1, <<>>)]

\* SurrealKV::increment
Surreal_increment(store, key, value, default_value) ==
  LET b == Surreal_increment_body(RawGet(store, key), value, default_value)
  IN IF b.ok
     THEN [store |-> TxnCommit(store, TxnPut(EmptyTxn, key, to_binary(b.sv))),
           res |-> OkSome(b.sv)]
     ELSE [store |-> store, res |-> Err(b.err)]

\* SurrealKV::decrement, between txn.get and txn.set: the entry to write
Surreal_decrement_body(raw_value, value, default_value) ==
  IF raw_value # <<>>
  THEN LET storage_value == from_binary(raw_value[1])
           current_value == get_integer_value(storage_value)
       IN IF current_value.ok
          THEN [ok |-> TRUE, err |-> "None",
                sv |-> [storage_value EXCEPT !.value = to_string(current_value.val - value)]]
          ELSE [ok |-> FALSE, err |-> current_value.err, sv |-> storage_value]
  ELSE IF default_value # <<>>
  THEN [ok |-> TRUE, err |-> "None",
        sv |-> StorageValue("Integer", -1, to_string(default_value[1] - value))]
  ELSE [ok |-> FALSE, err |-> "ValueNotFound", sv |-> StorageValue("String", -1, <<>>)]

\* SurrealKV::decrement
Surreal_decrement(store, key, value, default_value) ==
  LET b == Surreal_decrement_body(RawGet(store, key), value, default_value)
  IN IF b.ok
     THEN [store |-> TxnCommit(store, TxnPut(EmptyTxn, key, to_binary(b.sv))),
           res |-> OkSome(b.sv)]
     ELSE [store |-> store, res |-> Err(b.err)]

\* SurrealKV::delete
Surreal_delete(store, key) ==
  [store |-> TxnCommit(store, TxnDelete(EmptyTxn, key)), res |-> OkUnit]

RECURSIVE SurrealDeleteAll(_, _)
SurrealDeleteAll(todo, txn) ==
  IF todo = <<>> THEN txn ELSE SurrealDeleteAll(Tail(todo), TxnDelete(txn, Head(todo)))

\* SurrealKV::delete_prefix
Surreal_delete_prefix(store, prefix) ==
  [store |-> TxnCommit(store, SurrealDeleteAll(SurrealRange(store, prefix), EmptyTxn)),
   res |-> OkUnit]

\* ---------------------------------------------------- the HTTP handlers
\* i64::to_be_bytes, for the non-negative integers below 2^31 of the model
to_be_bytes(n) == [i \in 1..8 |-> NatByte(n, 9 - i)]

\* i64::from_be_bytes of eight bytes whose upper four are zero
from_be_bytes(bs) == 16777216 * bs[5] + 65536 * bs[6] + 256 * bs[7] + bs[8]

\* ApiResponse: Success(T) or ErrorResponse; "Abort" is a handler that panicked.
HResp(kind, err, n, val, keys) ==
  [kind |-> kind, err |-> err, n |-> n, val |-> val, keys |-> keys]
HSuccess == HResp("Success", "None", 0, <<>>, <<>>)
HSuccessInt(n) == HResp("Success", "None", n, <<>>, <<>>)
HSuccessValue(v) == HResp("Success", "None", 0, <<v>>, <<>>)
HSuccessKeys(ks) == HResp("Success", "None", 0, <<>>, ks)
HError(e) == HResp("ErrorResponse", e, 0, <<>>, <<>>)
HAbort == HResp("Abort", "None", 0, <<>>, <<>>)
NoResp == HResp("NoResp", "None", 0, <<>>, <<>>)

\* DatabaseQueries::set_key: the StorageValue it hands to db.set
set_key_value(value, ttl) ==
  IF value.int THEN StorageValue("Integer", ttl, to_be_bytes(value.n))
  ELSE StorageValue("String", ttl, value.s)

\* DatabaseQueries::get_by_key, from the result of db.get on
get_by_key_response(res) ==
  IF res.kind = "Panic" THEN HAbort
  ELSE IF res.kind = "Err" THEN HError(res.err)
  ELSE IF res.val = <<>> THEN HSuccess
  ELSE LET v == res.val[1]
       IN IF v.value_type = "Integer"
          THEN IF Len(v.value) = 8
               THEN HSuccessValue([int |-> TRUE, n |-> from_be_bytes(v.value), s |-> <<>>])
               ELSE HAbort
          ELSE IF IsUtf8(v.value)
               THEN HSuccessValue([int |-> FALSE, n |-> 0, s |-> v.value])
               ELSE HAbort

\* DatabaseQueries::get_all_keys, from the result of db.get_all_keys on
get_all_keys_response(res) ==
  IF res.kind = "Panic" THEN HAbort
  ELSE IF res.kind = "Err" THEN HError(res.err)
  ELSE HSuccessKeys(res.keys)

\* DatabaseQueries::set_key, delete_key, delete_keys, set_ttl, from the result
\* of the backend call on
unit_response(res) ==
  IF res.kind = "Panic" THEN HAbort
  ELSE IF res.kind = "Err" THEN HError(res.err)
  ELSE HSuccess

\* A variant of DatabaseQueries::get_ttl that would report every error of the
\* backend, ValueNotFound included, as an error response.
get_ttl_response_strict(res) ==
  IF res.kind = "Panic" THEN HAbort
  ELSE IF res.kind = "Ok" THEN HSuccessInt(res.n)
  ELSE HError(res.err)

\* DatabaseQueries::get_ttl, from the result of db.get_ttl on
get_ttl_response(res) ==
  IF res.kind = "Panic" THEN HAbort
  ELSE IF res.kind = "Ok" THEN HSuccessInt(res.n)
  ELSE IF res.err = "ValueNotFound" THEN HSuccessInt(-1)
  ELSE HError(res.err)

\* DatabaseQueries::increment / decrement, from the result of the backend call on
increment_response(res) ==
  IF res.kind = "Panic" THEN HAbort
  ELSE IF res.kind = "Err" THEN HError(res.err)
  ELSE LET value == get_integer_value(res.val[1])
       IN IF value.ok THEN HSuccessInt(value.val) ELSE HError(value.err)

\* Rocksdb::get_ttl when the engine's read can fail (Err(err) => Err(err.into()))
Rocks_get_ttl_read(store, key, now, read_fails) ==
  IF read_fails THEN [store |-> store, res |-> Err("InternalError")]
  ELSE Rocks_get_ttl(store, key, now)

\* SurrealKV::get_ttl when the engine's read can fail (txn.get(key)?)
Surreal_get_ttl_read(store, key, now, read_fails) ==
  IF read_fails THEN [store |-> store, res |-> Err("InternalError")]
  ELSE Surreal_get_ttl(store, key, now)

\* ============================================================ the state
VARIABLES
  now,       \* chrono::Utc::now().timestamp()
  bredis,    \* Bredis.store: key -> StorageValue
  poisoned,  \* whether Bredis' RwLock is poisoned
  rocks,     \* Rocksdb.store: key -> bytes
  surreal,   \* SurrealKV.store: key -> bytes
  calls,     \* contract calls issued so far
  last,      \* the last contract call: its arguments, its clock, each backend's result
  wrote,     \* per key, the last set of that key not yet followed by another
             \* write to it (a record of clock, requested ttl and payload)
  mode,      \* which bounds the behaviour explores: "wide" (Spec), "deep" (SpecDeep),
             \* "conc" (SpecConc), "race" (SpecRace), "par" (SpecPar),
             \* "fair" (FairPar), "life" (SpecLife), "http" (SpecHttp)
  http,      \* the response of the last HTTP request, per backend served
  backend,   \* the backend instance the concurrent callers share
  proc,      \* per concurrent caller: its position in the method, the arguments,
             \* the method's locals, the result of its last call
  seqno,     \* per key, the sequence number (version) of its last committed write
  oksum,     \* per key, the signed sum of the deltas of the concurrent calls
             \* that returned Ok
  life       \* the Rocksdb instance's handles and its directory on disk

cvars == <<backend, proc, seqno, oksum>>
vars == <<now, bredis, poisoned, rocks, surreal, calls, last, wrote, mode, http,
          backend, proc, seqno, oksum, life>>

\* The inputs and the number of calls of the behaviour's mode.
TtlsIn == IF mode = "wide" THEN Ttls ELSE IF mode = "http" THEN HttpTtls ELSE DeepTtls
DeltasIn == IF mode = "deep" THEN DeepDeltas ELSE Deltas
CallsIn ==
  IF mode = "deep" THEN MaxDeepCalls
  ELSE IF mode \in {"conc", "race"} THEN MaxSetupCalls
  ELSE IF mode = "par" THEN MaxParSetupCalls
  ELSE IF mode = "fair" THEN 0
  ELSE IF mode = "life" THEN MaxLifeCalls
  ELSE IF mode = "http" THEN MaxHttpCalls
  ELSE MaxCalls

Call(op, key, ttl, payload, delta, default_value) ==
  [op |-> op, key |-> key, ttl |-> ttl, payload |-> payload, delta |-> delta,
   default_value |-> default_value]
NoPayload == [value_type |-> "String", value |-> <<>>]

\* The concurrent callers, and a caller that is in no call.
Procs == {1, 2}
IdleProc ==
  [pc |-> "idle", done |-> 0, op |-> "none", key |-> <<>>, delta |-> 0,
   default_value |-> <<>>, ttl |-> 0, payload |-> NoPayload,
   sv |-> StorageValue("String", -1, <<>>), seen |-> 0, res |-> NoCall,
   plan |-> [store |-> EmptyStore, res |-> NoCall], snap |-> EmptyStore,
   acc |-> <<>>, cursor |-> <<>>, txn |-> EmptyTxn, scanned |-> <<>>,
   seenall |-> [k \in Keys |-> 0], raced |-> FALSE, after |-> {}]

\* The state after open.  Rocksdb::open leaves one handle, the database open
\* (its Arc alive) and its directory on disk: in life, "destroys" counts the
\* DB::destroy calls that removed the directory's data, "early" those of them
\* made while another handle was live, "steps" the clone, drop and close steps.
Fresh ==
  /\ now = StartTime
  /\ bredis = EmptyStore
  /\ poisoned = FALSE
  /\ rocks = EmptyStore
  /\ surreal = EmptyStore
  /\ calls = 0
  /\ last = [call |-> Call("none", <<>>, 0, NoPayload, 0, <<>>), at |-> StartTime,
             out |-> [b |-> NoCall, r |-> NoCall, s |-> NoCall]]
  /\ wrote = [k \in Keys |-> <<>>]
  /\ proc = [p \in Procs |-> IdleProc]
  /\ seqno = [k \in Keys |-> 0]
  /\ oksum = [k \in Keys |-> 0]
  /\ http = [bk \in {"b", "r", "s"} |-> NoResp]
  /\ life = [handles |-> 1, open |-> TRUE, disk |-> "data", destroys |-> 0,
             early |-> 0, steps |-> 0]

Init == Fresh /\ mode = "wide" /\ backend = "b"
InitDeep == Fresh /\ mode = "deep" /\ backend = "b"
InitConc == Fresh /\ mode = "conc" /\ backend \in {"b", "r", "s"}
InitRace == Fresh /\ mode = "race" /\ backend \in {"b", "r", "s"}
InitPar == Fresh /\ mode = "par" /\ backend \in {"b", "r", "s"}
InitFair == Fresh /\ mode = "fair" /\ backend \in {"b", "r", "s"}
InitHttp == Fresh /\ mode = "http" /\ backend = "b"
InitLife == Fresh /\ mode = "life" /\ backend = "r"

\* One contract call issued to the three backends at the same clock instant:
\* b, r, s are what the Bredis, Rocksdb and SurrealKV method does.
IssueWith(call, b, r, s, h) ==
  /\ calls < CallsIn
  /\ calls' = calls + 1
  /\ bredis' = b.store
  /\ poisoned' = b.poisoned
  /\ rocks' = r.store
  /\ surreal' = s.store
  /\ last' = [call |-> call, at |-> now, out |-> [b |-> b.res, r |-> r.res, s |-> s.res]]
  /\ http' = h
  /\ now' = now
  /\ mode' = mode
  /\ UNCHANGED cvars
  /\ UNCHANGED life

\* A contract call made directly, not through an HTTP handler.
Issue(call, b, r, s) == IssueWith(call, b, r, s, [bk \in {"b", "r", "s"} |-> NoResp])

\* The clock advances by one second (in the deep mode before the first call
\* only: its entries never expire).
Tick ==
  /\ now < StartTime + MaxTicks
  /\ mode = "deep" => calls = 0
  /\ now' = now + 1
  /\ UNCHANGED <<bredis, poisoned, rocks, surreal, calls, last, wrote, mode, http>>
  /\ UNCHANGED cvars
  /\ UNCHANGED life

Get ==
  \E key \in Keys :
    /\ Issue(Call("get", key, 0, NoPayload, 0, <<>>),
             BredisCall(poisoned, bredis, Bredis_get(bredis, key, now)),
             Rocks_get(rocks, key, now),
             Surreal_get(surreal, key, now))
    /\ UNCHANGED wrote

GetAllKeys ==
  \E prefix \in Prefixes, see \in BOOLEAN :
    /\ Issue(Call("get_all_keys", prefix, 0, NoPayload, 0, <<>>),
             BredisCall(poisoned, bredis, Bredis_get_all_keys(bredis, prefix)),
             Rocks_get_all_keys(rocks, prefix, now, see),
             Surreal_get_all_keys(surreal, prefix, now))
    /\ UNCHANGED wrote

GetTtl ==
  \E key \in Keys :
    /\ Issue(Call("get_ttl", key, 0, NoPayload, 0, <<>>),
             BredisCall(poisoned, bredis, Bredis_get_ttl(bredis, key, now)),
             Rocks_get_ttl(rocks, key, now),
             Surreal_get_ttl(surreal, key, now))
    /\ UNCHANGED wrote

UpdateTtl ==
  \E key \in Keys, ttl \in TtlsIn :
    /\ Issue(Call("update_ttl", key, ttl, NoPayload, 0, <<>>),
             BredisCall(poisoned, bredis, Bredis_update_ttl(bredis, key, ttl, now)),
             Rocks_update_ttl(rocks, key, ttl, now),
             Surreal_update_ttl(surreal, key, ttl, now))
    /\ wrote' = [wrote EXCEPT ![key] = <<>>]

Set ==
  \E key \in Keys, ttl \in TtlsIn, payload \in Payloads :
    LET value == StorageValue(payload.value_type, ttl, payload.value)
    IN /\ Issue(Call("set", key, ttl, payload, 0, <<>>),
                BredisCall(poisoned, bredis, Bredis_set(bredis, key, value, now)),
                Rocks_set(rocks, key, value, now),
                Surreal_set(surreal, key, value, now))
       /\ wrote' = [wrote EXCEPT ![key] =
                      <<[at |-> now, ttl |-> ttl, payload |-> payload, counted |-> FALSE]>>]

Increment ==
  \E key \in Keys, delta \in DeltasIn, default_value \in Defaults :
    /\ Issue(Call("increment", key, 0, NoPayload, delta, default_value),
             BredisCall(poisoned, bredis, Bredis_increment(bredis, key, delta, default_value)),
             Rocks_increment(rocks, key, delta, default_value),
             Surreal_increment(surreal, key, delta, default_value))
    /\ wrote' = [wrote EXCEPT ![key] =
                   IF @ = <<>> THEN <<>> ELSE <<[@[1] EXCEPT !.counted = TRUE]>>]

Decrement ==
  \E key \in Keys, delta \in DeltasIn, default_value \in Defaults :
    /\ Issue(Call("decrement", key, 0, NoPayload, delta, default_value),
             BredisCall(poisoned, bredis, Bredis_decrement(bredis, key, delta, default_value)),
             Rocks_decrement(rocks, key, delta, default_value),
             Surreal_decrement(surreal, key, delta, default_value))
    /\ wrote' = [wrote EXCEPT ![key] =
                   IF @ = <<>> THEN <<>> ELSE <<[@[1] EXCEPT !.counted = TRUE]>>]

Delete ==
  \E key \in Keys :
    /\ Issue(Call("delete", key, 0, NoPayload, 0, <<>>),
             BredisCall(poisoned, bredis, Bredis_delete(bredis, key)),
             Rocks_delete(rocks, key),
             Surreal_delete(surreal, key))
    /\ wrote' = [wrote EXCEPT ![key] = <<>>]

DeletePrefix ==
  \E prefix \in Prefixes :
    /\ Issue(Call("delete_prefix", prefix, 0, NoPayload, 0, <<>>),
             BredisCall(poisoned, bredis, Bredis_delete_prefix(bredis, prefix)),
             Rocks_delete_prefix(rocks, prefix),
             Surreal_delete_prefix(surreal, prefix))
    /\ wrote' = [k \in Keys |-> IF IsPrefixOf(prefix, k) THEN <<>> ELSE wrote[k]]

Next ==
  \/ Tick
  \/ Get
  \/ GetAllKeys
  \/ GetTtl
  \/ UpdateTtl
  \/ Set
  \/ Increment
  \/ Decrement
  \/ Delete
  \/ DeletePrefix

\* ------------------------------------------------ the Rocksdb handles
\* Storage::close of Rocksdb: DB::destroy on the shared path, its error
\* swallowed by unwrap_or_default.  The handle that calls it still holds the
\* open database, so whether DB::destroy removes the files of an open database
\* or fails on its LOCK file is the library's choice: removed is either.
\* others is the number of handles live beside the caller.
Rocksdb_close(l, removed, others) ==
  IF removed /\ l.disk = "data"
  THEN [l EXCEPT !.disk = "destroyed", !.destroys = @ + 1,
                 !.early = IF others > 0 THEN @ + 1 ELSE @]
  ELSE l

\* Clone for Rocksdb: a second handle on the same Arc and the same path.
HClone ==
  /\ mode = "life"
  /\ life.handles >= 1 /\ life.handles < MaxHandles
  /\ life.steps < MaxLifeSteps
  /\ life' = [life EXCEPT !.handles = @ + 1, !.steps = @ + 1]
  /\ UNCHANGED <<now, bredis, poisoned, rocks, surreal, calls, last, wrote, mode, http>>
  /\ UNCHANGED cvars

\* An explicit close() on a live handle.
HClose ==
  /\ mode = "life"
  /\ life.handles >= 1
  /\ life.steps < MaxLifeSteps
  /\ \E removed \in BOOLEAN :
       life' = [Rocksdb_close(life, removed, life.handles - 1) EXCEPT !.steps = @ + 1]
  /\ UNCHANGED <<now, bredis, poisoned, rocks, surreal, calls, last, wrote, mode, http>>
  /\ UNCHANGED cvars

\* Drop for Rocksdb: close() first, with the handle's own Arc still alive, then
\* the fields are dropped; the last Arc closes the database.
HDrop ==
  /\ mode = "life"
  /\ life.handles >= 1
  /\ life.steps < MaxLifeSteps
  /\ \E removed \in BOOLEAN :
       life' = [Rocksdb_close(life, removed, life.handles - 1) EXCEPT
                  !.handles = @ - 1, !.open = life.handles > 1, !.steps = @ + 1]
  /\ UNCHANGED <<now, bredis, poisoned, rocks, surreal, calls, last, wrote, mode, http>>
  /\ UNCHANGED cvars

\* A contract call through a live handle.
HSet == life.handles >= 1 /\ Set

NextLife ==
  \/ HClone
  \/ HClose
  \/ HDrop
  \/ HSet

\* ------------------------------------------------ concurrent callers
\* Callers of increment/decrement (and, in the "race" mode, of update_ttl and
\* set) on one shared instance, each method taken one step at a time: a step
\* is what the method does between two points at which another caller can run.
Seq0 == <<now, calls, last, wrote, mode, http, backend, life>>

Returned(p, res) ==
  [proc[p] EXCEPT !.pc = "idle", !.done = @ + 1, !.res = res]

Signed(p) == IF proc[p].op = "increment" THEN proc[p].delta ELSE 0 - proc[p].delta

\* A caller enters increment or decrement.
CStart(p) ==
  /\ mode = "conc"
  /\ calls = CallsIn
  /\ proc[p].pc = "idle"
  /\ proc[p].done < MaxProcCalls
  /\ \E op \in {"increment", "decrement"}, key \in Keys, delta \in DeltasIn,
        default_value \in Defaults :
       proc' = [proc EXCEPT ![p] =
                  [@ EXCEPT !.pc = "called", !.op = op, !.key = key, !.delta = delta,
                            !.default_value = default_value, !.res = NoCall]]
  /\ UNCHANGED <<bredis, poisoned, rocks, surreal, seqno, oksum>>
  /\ UNCHANGED Seq0

\* A caller enters increment, decrement, update_ttl or set.
CStartRace(p) ==
  /\ mode = "race"
  /\ calls = CallsIn
  /\ proc[p].pc = "idle"
  /\ proc[p].done < MaxProcCalls
  /\ \/ \E op \in {"increment", "decrement"}, key \in Keys, delta \in DeepDeltas,
           default_value \in Defaults :
          proc' = [proc EXCEPT ![p] =
                     [@ EXCEPT !.pc = "called", !.op = op, !.key = key,
                               !.delta = delta, !.default_value = default_value,
                               !.res = NoCall]]
     \/ \E key \in Keys, ttl \in RaceTtls :
          proc' = [proc EXCEPT ![p] =
                     [@ EXCEPT !.pc = "called", !.op = "update_ttl", !.key = key,
                               !.ttl = ttl, !.res = NoCall]]
     \/ \E key \in Keys, ttl \in RaceTtls, payload \in RacePayloads :
          proc' = [proc EXCEPT ![p] =
                     [@ EXCEPT !.pc = "called", !.op = "set", !.key = key,
                               !.ttl = ttl, !.payload = payload, !.res = NoCall]]
  /\ UNCHANGED <<bredis, poisoned, rocks, surreal, seqno, oksum>>
  /\ UNCHANGED Seq0

\* The value a caller of set passes.
SetValue(q) == StorageValue(q.payload.value_type, q.ttl, q.payload.value)

\* The method of backend bk a caller is in, run from entry to return on store
\* at clock t with no other caller in between.
RunAlone(bk, store, q, t) ==
  IF bk = "b"
  THEN IF q.op = "increment"
       THEN Bredis_increment(store, q.key, q.delta, q.default_value)
       ELSE IF q.op = "decrement"
       THEN Bredis_decrement(store, q.key, q.delta, q.default_value)
       ELSE IF q.op = "update_ttl"
       THEN Bredis_update_ttl(store, q.key, q.ttl, t)
       ELSE IF q.op = "get_all_keys"
       THEN Bredis_get_all_keys(store, q.key)
       ELSE IF q.op = "delete_prefix"
       THEN Bredis_delete_prefix(store, q.key)
       ELSE Bredis_set(store, q.key, SetValue(q), t)
  ELSE IF bk = "r"
  THEN IF q.op = "increment"
       THEN Rocks_increment(store, q.key, q.delta, q.default_value)
       ELSE IF q.op = "decrement"
       THEN Rocks_decrement(store, q.key, q.delta, q.default_value)
       ELSE IF q.op = "update_ttl"
       THEN Rocks_update_ttl(store, q.key, q.ttl, t)
       ELSE IF q.op = "get_all_keys"
       THEN Rocks_get_all_keys(store, q.key, t, FALSE)
       ELSE IF q.op = "delete_prefix"
       THEN Rocks_delete_prefix(store, q.key)
       ELSE Rocks_set(store, q.key, SetValue(q), t)
  ELSE IF q.op = "increment"
       THEN Surreal_increment(store, q.key, q.delta, q.default_value)
       ELSE IF q.op = "decrement"
       THEN Surreal_decrement(store, q.key, q.delta, q.default_value)
       ELSE IF q.op = "update_ttl"
       THEN Surreal_update_ttl(store, q.key, q.ttl, t)
       ELSE IF q.op = "get_all_keys"
       THEN Surreal_get_all_keys(store, q.key, t)
       ELSE IF q.op = "delete_prefix"
       THEN Surreal_delete_prefix(store, q.key)
       ELSE Surreal_set(store, q.key, SetValue(q), t)

\* Bredis::increment / decrement / update_ttl / set: the whole method under
\* the write lock.
CBredisRun(p) ==
  /\ backend = "b"
  /\ proc[p].pc = "called"
  /\ LET q == proc[p]
         out == RunAlone("b", bredis, q, now)
         c == BredisCall(poisoned, bredis, out)
     IN /\ bredis' = c.store
        /\ poisoned' = c.poisoned
        /\ proc' = [proc EXCEPT ![p] = Returned(p, c.res)]
        /\ oksum' = IF c.res.kind = "Ok" /\ q.op \in {"increment", "decrement"}
                    THEN [oksum EXCEPT ![q.key] = @ + Signed(p)] ELSE oksum
  /\ UNCHANGED <<rocks, surreal, seqno>>
  /\ UNCHANGED Seq0

\* Rocksdb::set: one self.store.put outside any transaction.
CRocksSet(p) ==
  /\ backend = "r"
  /\ proc[p].pc = "called"
  /\ proc[p].op = "set"
  /\ LET q == proc[p]
         out == Rocks_set(rocks, q.key, SetValue(q), now)
     IN /\ rocks' = out.store
        /\ seqno' = [seqno EXCEPT ![q.key] = @ + 1]
        /\ proc' = [proc EXCEPT ![p] = Returned(p, out.res)]
  /\ UNCHANGED <<bredis, poisoned, surreal, oksum>>
  /\ UNCHANGED Seq0

\* Rocksdb::increment / decrement / update_ttl up to txn.put: txn.get reads
\* the committed entry (an untracked read) and the entry to write is computed.
CRocksGet(p) ==
  /\ backend = "r"
  /\ proc[p].pc = "called"
  /\ proc[p].op \in {"increment", "decrement", "update_ttl"}
  /\ LET q == proc[p]
         b == IF q.op = "increment"
              THEN Rocks_increment_body(RawGet(rocks, q.key), q.delta, q.default_value)
              ELSE IF q.op = "decrement"
              THEN Rocks_decrement_body(RawGet(rocks, q.key), q.delta, q.default_value)
              ELSE Rocks_update_ttl_body(RawGet(rocks, q.key), q.ttl, now)
     IN proc' = [proc EXCEPT ![p] =
                   IF b.ok THEN [@ EXCEPT !.pc = "put", !.sv = b.sv]
                   ELSE Returned(p, Err(b.err))]
  /\ UNCHANGED <<bredis, poisoned, rocks, surreal, seqno, oksum>>
  /\ UNCHANGED Seq0

\* txn.put(key, ...): the optimistic transaction starts tracking the key at
\* the sequence number the store has now.
CRocksPut(p) ==
  /\ backend = "r"
  /\ proc[p].pc = "put"
  /\ proc' = [proc EXCEPT ![p] = [@ EXCEPT !.pc = "commit", !.seen = seqno[proc[p].key]]]
  /\ UNCHANGED <<bredis, poisoned, rocks, surreal, seqno, oksum>>
  /\ UNCHANGED Seq0

\* A variant of the commit step in which the backend itself would run the
\* call again when its transaction fails to commit.
CRocksCommitRetry(p) ==
  /\ backend = "r"
  /\ proc[p].pc = "commit"
  /\ LET q == proc[p]
     IN IF seqno[q.key] = q.seen
        THEN /\ rocks' = TxnCommit(rocks, TxnPut(EmptyTxn, q.key, to_binary(q.sv)))
             /\ seqno' = [seqno EXCEPT ![q.key] = @ + 1]
             /\ proc' = [proc EXCEPT ![p] =
                           Returned(p, IF q.op = "update_ttl" THEN OkUnit ELSE OkSome(q.sv))]
             /\ oksum' = [oksum EXCEPT ![q.key] = @ + Signed(p)]
        ELSE /\ proc' = [proc EXCEPT ![p] = [@ EXCEPT !.pc = "called"]]
             /\ UNCHANGED <<rocks, seqno, oksum>>
  /\ UNCHANGED <<bredis, poisoned, surreal>>
  /\ UNCHANGED Seq0

\* txn.commit()?: fails (InternalError through From<rocksdb::Error>) when the
\* key was written after it was tracked, else writes the entry.
CRocksCommit(p) ==
  /\ backend = "r"
  /\ proc[p].pc = "commit"
  /\ LET q == proc[p]
     IN IF seqno[q.key] = q.seen
        THEN /\ rocks' = TxnCommit(rocks, TxnPut(EmptyTxn, q.key, to_binary(q.sv)))
             /\ seqno' = [seqno EXCEPT ![q.key] = @ + 1]
             /\ proc' = [proc EXCEPT ![p] =
                           Returned(p, IF q.op = "update_ttl" THEN OkUnit ELSE OkSome(q.sv))]
             /\ oksum' = [oksum EXCEPT ![q.key] = @ + Signed(p)]
        ELSE /\ proc' = [proc EXCEPT ![p] = Returned(p, Err("InternalError"))]
             /\ UNCHANGED <<rocks, seqno, oksum>>
  /\ UNCHANGED <<bredis, poisoned, surreal>>
  /\ UNCHANGED Seq0

\* SurrealKV::set: a transaction that reads nothing; its one write reaches
\* the store at txn.commit.
CSurrealSet(p) ==
  /\ backend = "s"
  /\ proc[p].pc = "called"
  /\ proc[p].op = "set"
  /\ LET q == proc[p]
         out == Surreal_set(surreal, q.key, SetValue(q), now)
     IN /\ surreal' = out.store
        /\ seqno' = [seqno EXCEPT ![q.key] = @ + 1]
        /\ proc' = [proc EXCEPT ![p] = Returned(p, out.res)]
  /\ UNCHANGED <<bredis, poisoned, rocks, oksum>>
  /\ UNCHANGED Seq0

\* SurrealKV::increment / decrement / update_ttl up to txn.set: the
\* transaction begins, txn.get reads the key at the version the store has now
\* (a tracked read) and txn.set buffers the entry to write.
CSurrealGet(p) ==
  /\ backend = "s"
  /\ proc[p].pc = "called"
  /\ proc[p].op \in {"increment", "decrement", "update_ttl"}
  /\ LET q == proc[p]
         b == IF q.op = "increment"
              THEN Surreal_increment_body(RawGet(surreal, q.key), q.delta, q.default_value)
              ELSE IF q.op = "decrement"
              THEN Surreal_decrement_body(RawGet(surreal, q.key), q.delta, q.default_value)
              ELSE Surreal_update_ttl_body(RawGet(surreal, q.key), q.ttl, now)
     IN proc' = [proc EXCEPT ![p] =
                   IF b.ok THEN [@ EXCEPT !.pc = "commit", !.sv = b.sv, !.seen = seqno[q.key]]
                   ELSE Returned(p, Err(b.err))]
  /\ UNCHANGED <<bredis, poisoned, rocks, surreal, seqno, oksum>>
  /\ UNCHANGED Seq0

\* txn.commit().await.unwrap(): the commit fails when the key it read was
\* written since, and the unwrap aborts the call; else the entry is written.
CSurrealCommit(p) ==
  /\ backend = "s"
  /\ proc[p].pc = "commit"
  /\ LET q == proc[p]
     IN IF seqno[q.key] = q.seen
        THEN /\ surreal' = TxnCommit(surreal, TxnPut(EmptyTxn, q.key, to_binary(q.sv)))
             /\ seqno' = [seqno EXCEPT ![q.key] = @ + 1]
             /\ proc' = [proc EXCEPT ![p] =
                           Returned(p, IF q.op = "update_ttl" THEN OkUnit ELSE OkSome(q.sv))]
             /\ oksum' = [oksum EXCEPT ![q.key] = @ + Signed(p)]
        ELSE /\ proc' = [proc EXCEPT ![p] = Returned(p, Panic)]
             /\ UNCHANGED <<surreal, seqno, oksum>>
  /\ UNCHANGED <<bredis, poisoned, rocks>>
  /\ UNCHANGED Seq0

NextConc ==
  \/ Set
  \/ Delete
  \/ \E p \in Procs : CStart(p)
  \/ \E p \in Procs : CBredisRun(p)
  \/ \E p \in Procs : CRocksGet(p)
  \/ \E p \in Procs : CRocksPut(p)
  \/ \E p \in Procs : CRocksCommit(p)
  \/ \E p \in Procs : CSurrealGet(p)
  \/ \E p \in Procs : CSurrealCommit(p)

NextRace ==
  \/ Set
  \/ Delete
  \/ \E p \in Procs : CStartRace(p)
  \/ \E p \in Procs : CBredisRun(p)
  \/ \E p \in Procs : CRocksSet(p)
  \/ \E p \in Procs : CRocksGet(p)
  \/ \E p \in Procs : CRocksPut(p)
  \/ \E p \in Procs : CRocksCommit(p)
  \/ \E p \in Procs : CSurrealSet(p)
  \/ \E p \in Procs : CSurrealGet(p)
  \/ \E p \in Procs : CSurrealCommit(p)

\* ------------------------------------------------ callers of any method
\* Callers of get_all_keys, delete_prefix, set and increment on one shared
\* instance (the "par" mode). For a prefix call the prefix is in the key field.

\* A caller enters a method; `after` keeps the callers that had returned by then.
CStartPar(p) ==
  /\ mode \in {"par", "fair"}
  /\ calls = CallsIn
  /\ proc[p].pc = "idle"
  /\ proc[p].done < MaxProcCalls
  /\ LET after == {o \in Procs \ {p} : proc[o].done > 0}
     IN \/ \E op \in {"get_all_keys", "delete_prefix"}, prefix \in Prefixes :
             proc' = [proc EXCEPT ![p] =
                        [@ EXCEPT !.pc = "called", !.op = op, !.key = prefix,
                                  !.res = NoCall, !.after = after]]
        \/ \E key \in Keys, delta \in DeepDeltas, default_value \in Defaults :
             proc' = [proc EXCEPT ![p] =
                        [@ EXCEPT !.pc = "called", !.op = "increment", !.key = key,
                                  !.delta = delta, !.default_value = default_value,
                                  !.res = NoCall, !.after = after]]
        \/ \E key \in Keys, ttl \in RaceTtls, payload \in RacePayloads :
             proc' = [proc EXCEPT ![p] =
                        [@ EXCEPT !.pc = "called", !.op = "set", !.key = key,
                                  !.ttl = ttl, !.payload = payload,
                                  !.res = NoCall, !.after = after]]
  /\ UNCHANGED <<bredis, poisoned, rocks, surreal, seqno, oksum>>
  /\ UNCHANGED Seq0

\* Caller p returns res from a delete_prefix that has just taken effect: the
\* callers that are inside a call at that moment have raced with it.
ReturnedRacing(p, res) ==
  [o \in Procs |->
     IF o = p THEN Returned(p, res)
     ELSE IF proc[o].pc # "idle" THEN [proc[o] EXCEPT !.raced = TRUE]
     ELSE proc[o]]

\* A variant lock that would grant the write guard whoever holds a guard.
CanWriteAlways(p) == TRUE

\* RwLock::write() is granted when no other caller holds a guard, and
\* RwLock::read() when no other caller holds the write guard.
CanWrite(p) ==
  \A o \in Procs \ {p} : proc[o].pc \notin {"locked", "wdone", "rlocked", "rdone"}
CanRead(p) ==
  \A o \in Procs \ {p} : proc[o].pc \notin {"locked", "wdone"}

\* Bredis: self.store.write().unwrap() (read() in get_all_keys): the caller
\* takes the guard, or panics at the unwrap when the lock is poisoned.
CBredisLock(p) ==
  /\ backend = "b"
  /\ mode \in {"par", "fair"}
  /\ proc[p].pc = "called"
  /\ IF proc[p].op = "get_all_keys" THEN CanRead(p) ELSE CanWrite(p)
  /\ proc' = [proc EXCEPT ![p] =
                IF poisoned THEN Returned(p, Panic)
                ELSE [@ EXCEPT !.pc = IF proc[p].op = "get_all_keys" THEN "rlocked" ELSE "locked"]]
  /\ UNCHANGED <<bredis, poisoned, rocks, surreal, seqno, oksum>>
  /\ UNCHANGED Seq0

\* Bredis: the body of the method, run on the map behind the guard.
CBredisBody(p) ==
  /\ backend = "b"
  /\ proc[p].pc \in {"locked", "rlocked"}
  /\ proc' = [proc EXCEPT ![p] =
                [@ EXCEPT !.pc = IF proc[p].pc = "locked" THEN "wdone" ELSE "rdone",
                          !.plan = RunAlone("b", bredis, proc[p], now)]]
  /\ UNCHANGED <<bredis, poisoned, rocks, surreal, seqno, oksum>>
  /\ UNCHANGED Seq0

\* Bredis: the guard is dropped and the method returns; a guard dropped by a
\* panic poisons the lock.
CBredisUnlock(p) ==
  /\ backend = "b"
  /\ proc[p].pc \in {"wdone", "rdone"}
  /\ LET q == proc[p]
     IN /\ bredis' = IF q.pc = "wdone" THEN q.plan.store ELSE bredis
        /\ poisoned' = (q.plan.res.kind = "Panic")
        /\ proc' = IF q.op = "delete_prefix" THEN ReturnedRacing(p, q.plan.res)
                   ELSE [proc EXCEPT ![p] = Returned(p, q.plan.res)]
  /\ UNCHANGED <<rocks, surreal, seqno, oksum>>
  /\ UNCHANGED Seq0

\* Rocksdb::delete_prefix: one delete_range_cf outside any transaction.
CRocksDeletePrefix(p) ==
  /\ backend = "r"
  /\ proc[p].pc = "called"
  /\ proc[p].op = "delete_prefix"
  /\ LET q == proc[p]
         out == Rocks_delete_prefix(rocks, q.key)
     IN /\ rocks' = out.store
        /\ seqno' = [k \in Keys |-> IF InPrefixRange(q.key, k) THEN seqno[k] + 1 ELSE seqno[k]]
        /\ proc' = ReturnedRacing(p, out.res)
  /\ UNCHANGED <<bredis, poisoned, surreal, oksum>>
  /\ UNCHANGED Seq0

\* A variant iterator that would read each entry from the store as it is at
\* the moment of the turn, with no snapshot.
IterViewLive(snapshot, live) == live

\* The entries an iterator opened on snapshot shows while the store holds
\* live: a RocksDB iterator reads the store as it was when it was created.
IterView(snapshot, live) == snapshot

\* Rocksdb::get_all_keys: txn.prefix_iterator(prefix) creates the iterator.
CRocksIterOpen(p) ==
  /\ backend = "r"
  /\ proc[p].pc = "called"
  /\ proc[p].op = "get_all_keys"
  /\ proc' = [proc EXCEPT ![p] =
                [@ EXCEPT !.pc = "iter", !.snap = rocks, !.acc = <<>>, !.cursor = <<>>]]
  /\ UNCHANGED <<bredis, poisoned, rocks, surreal, seqno, oksum>>
  /\ UNCHANGED Seq0

\* Rocksdb::get_all_keys: one turn of `for result in iter` on the next entry
\* after the cursor, or the return of the keys when the iterator is exhausted.
\* The transaction with the deletes of expired entries is dropped.
CRocksIterNext(p) ==
  /\ backend = "r"
  /\ proc[p].pc = "iter"
  /\ LET q == proc[p]
         view == IterView(q.snap, rocks)
         rest == {k \in DOMAIN view :
                    BytesLeq(q.key, k) /\ (q.cursor = <<>> \/ BytesLess(q.cursor[1], k))}
         key == Head(SortedSeq(rest))
         r == RocksScan(view, <<key>>, now, FALSE, EmptyTxn, q.acc)
     IN proc' = [proc EXCEPT ![p] =
                   IF rest = {} THEN Returned(p, OkKeys(q.acc))
                   ELSE IF r.panic THEN Returned(p, Panic)
                   ELSE [@ EXCEPT !.acc = r.keys, !.cursor = <<key>>]]
  /\ UNCHANGED <<bredis, poisoned, rocks, surreal, seqno, oksum>>
  /\ UNCHANGED Seq0

\* SurrealKV::get_all_keys / delete_prefix up to the commit: the transaction
\* begins, txn.scan returns the entries of the range as the store holds them
\* now, and the loop buffers its deletes.
CSurrealScan(p) ==
  /\ backend = "s"
  /\ proc[p].pc = "called"
  /\ proc[p].op \in {"get_all_keys", "delete_prefix"}
  /\ LET q == proc[p]
         todo == SurrealRange(surreal, q.key)
         r == SurrealScan(surreal, todo, now, EmptyTxn, <<>>)
     IN proc' = [proc EXCEPT ![p] =
                   [@ EXCEPT !.pc = "commit_scan", !.scanned = todo, !.seenall = seqno,
                             !.txn = IF q.op = "get_all_keys" THEN r.txn
                                     ELSE SurrealDeleteAll(todo, EmptyTxn),
                             !.acc = IF q.op = "get_all_keys" THEN r.keys ELSE <<>>]]
  /\ UNCHANGED <<bredis, poisoned, rocks, surreal, seqno, oksum>>
  /\ UNCHANGED Seq0

\* txn.commit().await.unwrap() of get_all_keys / delete_prefix: a transaction
\* with writes fails to commit when an entry it scanned was written since,
\* and the unwrap aborts the call; else its deletes reach the store.
CSurrealScanCommit(p) ==
  /\ backend = "s"
  /\ proc[p].pc = "commit_scan"
  /\ LET q == proc[p]
         conflict == /\ q.txn # EmptyTxn
                     /\ \E k \in Range(q.scanned) : seqno[k] # q.seenall[k]
         res == IF q.op = "get_all_keys" THEN OkKeys(q.acc) ELSE OkUnit
     IN IF conflict
        THEN /\ proc' = [proc EXCEPT ![p] = Returned(p, Panic)]
             /\ UNCHANGED <<surreal, seqno>>
        ELSE /\ surreal' = TxnCommit(surreal, q.txn)
             /\ seqno' = [k \in Keys |-> IF k \in q.txn.dels THEN seqno[k] + 1 ELSE seqno[k]]
             /\ proc' = IF q.op = "delete_prefix" THEN ReturnedRacing(p, res)
                        ELSE [proc EXCEPT ![p] = Returned(p, res)]
  /\ UNCHANGED <<bredis, poisoned, rocks, oksum>>
  /\ UNCHANGED Seq0

NextPar ==
  \/ Set
  \/ Delete
  \/ \E p \in Procs : CStartPar(p)
  \/ \E p \in Procs : CBredisLock(p)
  \/ \E p \in Procs : CBredisBody(p)
  \/ \E p \in Procs : CBredisUnlock(p)
  \/ \E p \in Procs : CRocksSet(p)
  \/ \E p \in Procs : CRocksDeletePrefix(p)
  \/ \E p \in Procs : CRocksIterOpen(p)
  \/ \E p \in Procs : CRocksIterNext(p)
  \/ \E p \in Procs : CRocksGet(p)
  \/ \E p \in Procs : CRocksPut(p)
  \/ \E p \in Procs : CRocksCommit(p)
  \/ \E p \in Procs : CSurrealSet(p)
  \/ \E p \in Procs : CSurrealScan(p)
  \/ \E p \in Procs : CSurrealScanCommit(p)
  \/ \E p \in Procs : CSurrealGet(p)
  \/ \E p \in Procs : CSurrealCommit(p)

\* ------------------------------------------------ requests over HTTP
\* The response the handler named by the request builds from the result of
\* its contract call.
Respond(op, res) ==
  IF op = "http_get_by_key" THEN get_by_key_response(res)
  ELSE IF op = "http_get_all_keys" THEN get_all_keys_response(res)
  ELSE IF op = "http_get_ttl" THEN get_ttl_response(res)
  ELSE IF op \in {"http_increment", "http_decrement"} THEN increment_response(res)
  ELSE unit_response(res)

\* One request served from each backend: the handler makes the contract call
\* b, r, s and turns its result into a response.
Serve(call, b, r, s) ==
  IssueWith(call, b, r, s,
            [bk \in {"b", "r", "s"} |->
               Respond(call.op, IF bk = "b" THEN b.res ELSE IF bk = "r" THEN r.res ELSE s.res)])

HGetByKey ==
  \E key \in Keys :
    /\ Serve(Call("http_get_by_key", key, 0, NoPayload, 0, <<>>),
             BredisCall(poisoned, bredis, Bredis_get(bredis, key, now)),
             Rocks_get(rocks, key, now),
             Surreal_get(surreal, key, now))
    /\ UNCHANGED wrote

HGetAllKeys ==
  \E prefix \in Prefixes, see \in BOOLEAN :
    /\ Serve(Call("http_get_all_keys", prefix, 0, NoPayload, 0, <<>>),
             BredisCall(poisoned, bredis, Bredis_get_all_keys(bredis, prefix)),
             Rocks_get_all_keys(rocks, prefix, now, see),
             Surreal_get_all_keys(surreal, prefix, now))
    /\ UNCHANGED wrote

HSetKey ==
  \E key \in Keys, ttl \in TtlsIn, v \in HttpValues :
    LET value == set_key_value(v, ttl)
        payload == [value_type |-> value.value_type, value |-> value.value]
    IN /\ Serve(Call("http_set_key", key, ttl, payload, 0, <<>>),
                BredisCall(poisoned, bredis, Bredis_set(bredis, key, value, now)),
                Rocks_set(rocks, key, value, now),
                Surreal_set(surreal, key, value, now))
       /\ wrote' = [wrote EXCEPT ![key] =
                      <<[at |-> now, ttl |-> ttl, payload |-> payload, counted |-> FALSE]>>]

HDeleteKey ==
  \E key \in Keys :
    /\ Serve(Call("http_delete_key", key, 0, NoPayload, 0, <<>>),
             BredisCall(poisoned, bredis, Bredis_delete(bredis, key)),
             Rocks_delete(rocks, key),
             Surreal_delete(surreal, key))
    /\ wrote' = [wrote EXCEPT ![key] = <<>>]

HDeleteKeys ==
  \E prefix \in Prefixes :
    /\ Serve(Call("http_delete_keys", prefix, 0, NoPayload, 0, <<>>),
             BredisCall(poisoned, bredis, Bredis_delete_prefix(bredis, prefix)),
             Rocks_delete_prefix(rocks, prefix),
             Surreal_delete_prefix(surreal, prefix))
    /\ wrote' = [k \in Keys |-> IF IsPrefixOf(prefix, k) THEN <<>> ELSE wrote[k]]

HGetTtl ==
  \E key \in Keys, read_fails \in BOOLEAN :
    /\ Serve(Call("http_get_ttl", key, 0, NoPayload, 0, <<>>),
             BredisCall(poisoned, bredis, Bredis_get_ttl(bredis, key, now)),
             Rocks_get_ttl_read(rocks, key, now, read_fails),
             Surreal_get_ttl_read(surreal, key, now, read_fails))
    /\ UNCHANGED wrote

HSetTtl ==
  \E key \in Keys, ttl \in TtlsIn :
    /\ Serve(Call("http_set_ttl", key, ttl, NoPayload, 0, <<>>),
             BredisCall(poisoned, bredis, Bredis_update_ttl(bredis, key, ttl, now)),
             Rocks_update_ttl(rocks, key, ttl, now),
             Surreal_update_ttl(surreal, key, ttl, now))
    /\ wrote' = [wrote EXCEPT ![key] = <<>>]

HIncrement ==
  \E key \in Keys, delta \in DeltasIn, default_value \in Defaults :
    /\ Serve(Call("http_increment", key, 0, NoPayload, delta, default_value),
             BredisCall(poisoned, bredis, Bredis_increment(bredis, key, delta, default_value)),
             Rocks_increment(rocks, key, delta, default_value),
             Surreal_increment(surreal, key, delta, default_value))
    /\ wrote' = [wrote EXCEPT ![key] =
                   IF @ = <<>> THEN <<>> ELSE <<[@[1] EXCEPT !.counted = TRUE]>>]

HDecrement ==
  \E key \in Keys, delta \in DeltasIn, default_value \in Defaults :
    /\ Serve(Call("http_decrement", key, 0, NoPayload, delta, default_value),
             BredisCall(poisoned, bredis, Bredis_decrement(bredis, key, delta, default_value)),
             Rocks_decrement(rocks, key, delta, default_value),
             Surreal_decrement(surreal, key, delta, default_value))
    /\ wrote' = [wrote EXCEPT ![key] =
                   IF @ = <<>> THEN <<>> ELSE <<[@[1] EXCEPT !.counted = TRUE]>>]

NextHttp ==
  \/ Tick
  \/ HGetByKey
  \/ HGetAllKeys
  \/ HSetKey
  \/ HDeleteKey
  \/ HDeleteKeys
  \/ HGetTtl
  \/ HSetTtl
  \/ HIncrement
  \/ HDecrement

Spec == Init /\ [][Next]_vars
SpecDeep == InitDeep /\ [][Next]_vars
SpecConc == InitConc /\ [][NextConc]_vars
SpecRace == InitRace /\ [][NextRace]_vars
SpecPar == InitPar /\ [][NextPar]_vars
SpecHttp == InitHttp /\ [][NextHttp]_vars
SpecLife == InitLife /\ [][NextLife]_vars

\* What a caller that is inside a method does next.  Every call runs as a task
\* of the server's runtime, which keeps running a task that can take a step, and
\* a guard or a transaction is a local of the method: a caller that can step
\* does step.  Starting a call is left to the client.
CallerStep(p) ==
  \/ CBredisLock(p)
  \/ CBredisBody(p)
  \/ CBredisUnlock(p)
  \/ CRocksSet(p)
  \/ CRocksDeletePrefix(p)
  \/ CRocksIterOpen(p)
  \/ CRocksIterNext(p)
  \/ CRocksGet(p)
  \/ CRocksPut(p)
  \/ CRocksCommit(p)
  \/ CSurrealSet(p)
  \/ CSurrealScan(p)
  \/ CSurrealScanCommit(p)
  \/ CSurrealGet(p)
  \/ CSurrealCommit(p)
\* The callers on a store that starts empty: what they race on they write
\* themselves.
NextFair ==
  \/ \E p \in Procs : CStartPar(p)
  \/ \E p \in Procs : CallerStep(p)
FairPar == InitFair /\ [][NextFair]_vars /\ \A p \in Procs : WF_vars(CallerStep(p))

\* ============================================================ the claims
Backends == {"b", "r", "s"}

\* The entries a backend holds, decoded: key -> StorageValue
Stored(bk) ==
  IF bk = "b" THEN bredis
  ELSE IF bk = "r" THEN [k \in DOMAIN rocks |-> from_binary(rocks[k])]
  ELSE [k \in DOMAIN surreal |-> from_binary(surreal[k])]

\* An entry with a finite ttl whose instant has been reached at clock t.
Expired(v, t) == v.ttl > -1 /\ v.ttl - t <= 0

\* The step is a contract call of this name.
IsCall(op) == calls' = calls + 1 /\ last'.call.op = op

\* Every concurrent caller has returned from its calls.
Quiescent == mode = "conc" /\ calls = CallsIn /\ \A p \in Procs : proc[p].pc = "idle"

\* The well-formed Integer a key was set to before the concurrent callers ran.
InitialInteger(k) ==
  IF wrote[k] # <<>> /\ wrote[k][1].payload.value_type = "Integer"
  THEN ParseI64(wrote[k][1].payload.value)
  ELSE [ok |-> FALSE, val |-> 0]

\* C1: counter operations are atomic on every backend: when concurrent callers
\* increment/decrement the same Integer key of one instance and all calls have
\* returned, the stored value is the initial value plus the signed sum of the
\* deltas of exactly the calls that returned Ok (no update is lost).
C1_NoLostUpdate ==
  \A k \in Keys :
    (Quiescent /\ InitialInteger(k).ok)
      => /\ Has(Stored(backend), k)
         /\ get_integer_value(Stored(backend)[k]).ok
         /\ get_integer_value(Stored(backend)[k]).val = InitialInteger(k).val + oksum[k]

\* C2 (part 1): after set(k, v) with ttl t >= 0 at clock T and no later write
\* to k, get(k) at clock now returns Some(v.value_type, v.value, T + t - now)
\* while T + t - now > 0 and None otherwise, on every backend.
C2_GetAfterSet ==
  \A bk \in Backends :
    LET k == last.call.key
        w == wrote[k][1]
        remaining == w.at + w.ttl - last.at
    IN (last.call.op = "get" /\ wrote[k] # <<>> /\ ~w.counted /\ w.ttl >= 0)
       => last.out[bk] =
            IF remaining > 0
            THEN OkSome(StorageValue(w.payload.value_type, remaining, w.payload.value))
            ELSE OkNone

\* C2 (part 2): once get(k) has returned None for the expired key, a following
\* get_all_keys("") does not list k.
C2_GoneAfterGet ==
  \A bk \in Backends :
    LET k == last.call.key
    IN (/\ last.call.op = "get" /\ last.out[bk] = OkNone
        /\ wrote[k] # <<>> /\ wrote[k][1].ttl >= 0
        /\ IsCall("get_all_keys") /\ last'.call.key = <<>>)
       => k \notin Range(last'.out[bk].keys)

\* C2: get honours the ttl requested by set, on every backend.
C2_TtlExpiry == []C2_GetAfterSet /\ [][C2_GoneAfterGet]_vars

\* Two results a caller cannot tell apart: the same Ok value (key lists as
\* sets), the same error kind, or both calls aborting.
SameResult(x, y) ==
  /\ x.kind = y.kind /\ x.err = y.err /\ x.val = y.val /\ x.n = y.n
  /\ Range(x.keys) = Range(y.keys)

\* C3: every call returns the same result on the in-memory, the
\* transactional-engine and the versioned-store backend.
C3_BackendsAgree ==
  /\ SameResult(last.out.b, last.out.r)
  /\ SameResult(last.out.r, last.out.s)

\* C4: get_all_keys(prefix) returns exactly the stored (unexpired) keys that
\* start with prefix, each once, and never a key that does not start with it.
C4_ExactlyPrefix ==
  \A bk \in Backends :
    LET prefix == last.call.key
        keys == last.out[bk].keys
    IN (last.call.op = "get_all_keys" /\ last.out[bk].kind = "Ok")
       => /\ \A i \in 1..Len(keys) : IsPrefixOf(prefix, keys[i])
          /\ \A i, j \in 1..Len(keys) : keys[i] = keys[j] => i = j
          /\ \A k \in DOMAIN Stored(bk) :
               (IsPrefixOf(prefix, k) /\ ~Expired(Stored(bk)[k], last.at))
                 => k \in Range(keys)

\* C5: get_all_keys(prefix) returns no key whose entry is expired at the time
\* of the call, and the expired entries under the prefix are gone from the
\* store when it returns.
C5_Step ==
  \A bk \in Backends :
    (IsCall("get_all_keys") /\ last'.out[bk].kind = "Ok")
    => /\ \A k \in Range(last'.out[bk].keys) :
            ~(Has(Stored(bk), k) /\ Expired(Stored(bk)[k], now))
       /\ \A k \in DOMAIN Stored(bk) :
            (IsPrefixOf(last'.call.key, k) /\ Expired(Stored(bk)[k], now))
              => ~Has(Stored(bk)', k)
C5_ScanDropsExpired == [][C5_Step]_vars

\* C6: increment/decrement without a default on an absent key fail with
\* ValueNotFound and create nothing.
C6_Step ==
  \A bk \in Backends :
    (/\ IsCall("increment") \/ IsCall("decrement")
     /\ last'.call.default_value = <<>>
     /\ ~Has(Stored(bk), last'.call.key))
    => /\ last'.out[bk] = Err("ValueNotFound")
       /\ Stored(bk)' = Stored(bk)
C6_NoDefaultNotFound == [][C6_Step]_vars

\* The entry holds an Integer whose bytes are the text of a number.
HoldsInteger(v) == v.value_type = "Integer" /\ get_integer_value(v).ok

\* C7: increment(k, d, Some(def)) creates Integer(def + d) without expiry on an
\* absent key, and on a key holding the Integer c stores and returns c + d.
C7_Step ==
  \A bk \in Backends :
    LET k == last'.call.key
        d == last'.call.delta
        def == last'.call.default_value
        made == StorageValue("Integer", -1, to_string(def[1] + d))
        old == Stored(bk)[k]
        new == [old EXCEPT !.value = to_string(get_integer_value(old).val + d)]
    IN (IsCall("increment") /\ def # <<>>)
       => /\ ~Has(Stored(bk), k)
               => last'.out[bk] = OkSome(made) /\ Stored(bk)' = Insert(Stored(bk), k, made)
          /\ (Has(Stored(bk), k) /\ HoldsInteger(old))
               => last'.out[bk] = OkSome(new) /\ Stored(bk)' = Insert(Stored(bk), k, new)
C7_IncrementDefault == [][C7_Step]_vars

\* C8: increment/decrement on a String entry fail with InvalidValueType,
\* whatever the default, and leave the entry as it is.
C8_Step ==
  \A bk \in Backends :
    LET k == last'.call.key
    IN (/\ IsCall("increment") \/ IsCall("decrement")
        /\ Has(Stored(bk), k) /\ Stored(bk)[k].value_type = "String")
       => /\ last'.out[bk] = Err("InvalidValueType")
          /\ Stored(bk)' = Stored(bk)
C8_StringRejected == [][C8_Step]_vars

\* What increment(k, d, def) would return on backend bk in the current state.
IncrementWould(bk, k, d, def) ==
  IF bk = "b" THEN BredisCall(poisoned, bredis, Bredis_increment(bredis, k, d, def)).res
  ELSE IF bk = "r" THEN Rocks_increment(rocks, k, d, def).res
  ELSE Surreal_increment(surreal, k, d, def).res

\* C9: decrement mirrors increment with subtraction: c - d on an Integer c,
\* Integer(def - d) without expiry on an absent key with a default, and a
\* failure exactly where and as increment would fail.
C9_Step ==
  \A bk \in Backends :
    LET k == last'.call.key
        d == last'.call.delta
        def == last'.call.default_value
        made == StorageValue("Integer", -1, to_string(def[1] - d))
        old == Stored(bk)[k]
        new == [old EXCEPT !.value = to_string(get_integer_value(old).val - d)]
        inc == IncrementWould(bk, k, d, def)
    IN IsCall("decrement")
       => /\ (~Has(Stored(bk), k) /\ def # <<>>)
               => last'.out[bk] = OkSome(made) /\ Stored(bk)' = Insert(Stored(bk), k, made)
          /\ (Has(Stored(bk), k) /\ HoldsInteger(old))
               => last'.out[bk] = OkSome(new) /\ Stored(bk)' = Insert(Stored(bk), k, new)
          /\ last'.out[bk].kind = inc.kind /\ last'.out[bk].err = inc.err
C9_DecrementMirrors == [][C9_Step]_vars

\* The entry set(k, v) at clock t leaves in a store.
Normalized(payload, ttl, t) ==
  StorageValue(payload.value_type, IF ttl < 0 THEN -1 ELSE ttl + t, payload.value)

\* C10: set(k, v) then get(k), before v's ttl elapses, returns v's type and
\* bytes with ttl -1 (v.ttl < 0) or the remaining seconds; set overwrites an
\* existing entry without error.
C10_Step ==
  \A bk \in Backends :
    LET c == last.call
        remaining == last.at + c.ttl - now
    IN /\ (/\ last.call.op = "set" /\ IsCall("get") /\ last'.call.key = c.key
           /\ (c.ttl < 0 \/ remaining > 0))
          => last'.out[bk] =
               OkSome(StorageValue(c.payload.value_type,
                                   IF c.ttl < 0 THEN -1 ELSE remaining, c.payload.value))
       /\ IsCall("set")
          => /\ last'.out[bk] = OkUnit
             /\ Stored(bk)' = Insert(Stored(bk), last'.call.key,
                                     Normalized(last'.call.payload, last'.call.ttl, now))
C10_RoundTrip == [][C10_Step]_vars

\* C11: get_ttl(k) returns -1 for an entry without expiry, the remaining
\* seconds (stored ttl - now > 0) for an unexpired entry, and fails with
\* ValueNotFound when k is absent or expired; an expired entry has been removed
\* when the error is returned.
C11_Step ==
  \A bk \in Backends :
    LET k == last'.call.key
        old == Stored(bk)[k]
    IN IsCall("get_ttl")
       => /\ ~Has(Stored(bk), k)
               => last'.out[bk] = Err("ValueNotFound") /\ Stored(bk)' = Stored(bk)
          /\ (Has(Stored(bk), k) /\ old.ttl = -1)
               => last'.out[bk] = OkInt(-1) /\ Stored(bk)' = Stored(bk)
          /\ (Has(Stored(bk), k) /\ old.ttl > -1 /\ ~Expired(old, now))
               => last'.out[bk] = OkInt(old.ttl - now) /\ Stored(bk)' = Stored(bk)
          /\ (Has(Stored(bk), k) /\ Expired(old, now))
               => last'.out[bk] = Err("ValueNotFound") /\ ~Has(Stored(bk)', k)
C11_GetTtl == [][C11_Step]_vars

\* C12: update_ttl(k, ttl) on a key that does not exist fails with
\* ValueNotFound on every backend and creates no entry.
C12_Step ==
  \A bk \in Backends :
    LET k == last'.call.key
    IN (IsCall("update_ttl") /\ ~Has(Stored(bk), k))
       => last'.out[bk] = Err("ValueNotFound") /\ Stored(bk)' = Stored(bk)
C12_UpdateTtlAbsent == [][C12_Step]_vars

\* C13: update_ttl(k, t) on an existing key rewrites only the ttl, normalized
\* as set does (-1 for t < 0, now + t otherwise), and a following get_ttl(k)
\* returns -1 for t < 0 and a value in (0, t] for t > 0 while it has not elapsed.
C13_Step ==
  \A bk \in Backends :
    LET k == last'.call.key
        t == last'.call.ttl
        old == Stored(bk)[k]
        new == [old EXCEPT !.ttl = IF t < 0 THEN -1 ELSE now + t]
        c == last.call
    IN /\ (IsCall("update_ttl") /\ Has(Stored(bk), k))
          => last'.out[bk] = OkUnit /\ Stored(bk)' = Insert(Stored(bk), k, new)
       /\ (/\ c.op = "update_ttl" /\ last.out[bk] = OkUnit
           /\ IsCall("get_ttl") /\ k = c.key)
          => /\ c.ttl < 0 => last'.out[bk] = OkInt(-1)
             /\ (c.ttl > 0 /\ last.at + c.ttl - now > 0)
                  => /\ last'.out[bk].kind = "Ok"
                     /\ last'.out[bk].n > 0 /\ last'.out[bk].n <= c.ttl
C13_UpdateTtlFrame == [][C13_Step]_vars

\* C14: an entry written with ttl < 0 never expires: at every later clock time
\* and after any get, get_ttl, get_all_keys, increment or decrement (no delete,
\* delete_prefix, set or update_ttl of k since), get(k) returns the value (with
\* ttl -1) and get_ttl(k) returns -1, on every backend.
C14_NeverExpires ==
  \A bk \in Backends :
    LET k == last.call.key
        w == wrote[k][1]
    IN (last.call.op \in {"get", "get_ttl"} /\ wrote[k] # <<>> /\ w.ttl < 0)
       => /\ last.call.op = "get_ttl" => last.out[bk] = OkInt(-1)
          /\ last.call.op = "get"
               => /\ last.out[bk].kind = "Ok"
                  /\ last.out[bk].val # <<>>
                  /\ last.out[bk].val[1].ttl = -1
                  /\ last.out[bk].val[1].value_type = w.payload.value_type
                  /\ ~w.counted => last.out[bk].val[1].value = w.payload.value

\* C15: delete(k) is idempotent on every backend: it succeeds whether or not k
\* exists, leaves the store without k and otherwise unchanged (so a second
\* delete changes nothing), and a following get(k) returns None.
C15_Step ==
  \A bk \in Backends :
    LET k == last'.call.key
    IN /\ IsCall("delete")
          => last'.out[bk] = OkUnit /\ Stored(bk)' = Remove(Stored(bk), k)
       /\ (last.call.op = "delete" /\ IsCall("get") /\ k = last.call.key)
          => last'.out[bk] = OkNone
C15_DeleteIdempotent == [][C15_Step]_vars

\* C16: delete_prefix(p) succeeds and removes every key that starts with p and
\* only those, on every backend: all other entries are unchanged, and a second
\* call changes nothing.
C16_Step ==
  \A bk \in Backends :
    LET p == last'.call.key
        kept == {k \in DOMAIN Stored(bk) : ~IsPrefixOf(p, k)}
    IN IsCall("delete_prefix")
       => /\ last'.out[bk] = OkUnit
          /\ Stored(bk)' = [k \in kept |-> Stored(bk)[k]]
C16_DeletePrefixFrame == [][C16_Step]_vars

\* C17: the ttl of every stored entry is -1 or the absolute instant fixed by
\* the last set or update_ttl of its key (the clock at that write plus the
\* requested ttl). Stated on the steps: a successful set/update_ttl of k stores
\* -1 or now + t, and no other call (reads included) changes the ttl of an
\* entry it leaves in the store; an entry created by a counter call has ttl -1.
C17_Step ==
  \A bk \in Backends :
    \A k \in DOMAIN (Stored(bk)') :
      LET c == last'.call
          new == Stored(bk)'[k].ttl
      IN calls' = calls + 1
         => IF c.op \in {"set", "update_ttl"} /\ c.key = k /\ last'.out[bk] = OkUnit
            THEN new = IF c.ttl < 0 THEN -1 ELSE now + c.ttl
            ELSE IF Has(Stored(bk), k) THEN new = Stored(bk)[k].ttl
            ELSE new = -1
C17_TtlAbsolute == [][C17_Step]_vars

\* C18: increment/decrement on a pre-existing Integer key rewrite only the
\* value bytes: the entry's stored ttl and value_type are the same after the
\* call as before it, on every backend, and an entry the call creates has
\* ttl -1.
C18_Step ==
  \A bk \in Backends :
    LET k == last'.call.key
        old == Stored(bk)[k]
        new == Stored(bk)'[k]
    IN (IsCall("increment") \/ IsCall("decrement"))
       => /\ (Has(Stored(bk), k) /\ old.value_type = "Integer")
               => /\ Has(Stored(bk)', k)
                  /\ new.ttl = old.ttl
                  /\ new.value_type = old.value_type
          /\ (~Has(Stored(bk), k) /\ Has(Stored(bk)', k)) => new.ttl = -1
C18_CounterFrame == [][C18_Step]_vars

\* A counter call has just rewritten, on every backend, an Integer entry that
\* was set with a finite ttl.
C18_Witness ==
  LET k == last.call.key
  IN /\ last.call.op \in {"increment", "decrement"}
     /\ wrote[k] # <<>> /\ wrote[k][1].ttl >= 0 /\ wrote[k][1].counted
     /\ \A bk \in Backends :
          /\ last.out[bk].kind = "Ok" /\ last.out[bk].val # <<>>
          /\ Has(Stored(bk), k) /\ Stored(bk)[k].ttl = wrote[k][1].at + wrote[k][1].ttl
          /\ Stored(bk)[k].value # wrote[k][1].payload.value

\* C19: the HTTP get_ttl handler answers Success with ttl -1 whenever the
\* backend's get_ttl fails with ValueNotFound, Success with the backend's ttl
\* on Ok, and an error response for every other error kind.
C19_GetTtlResponse ==
  \A bk \in Backends :
    LET out == last.out[bk]
    IN last.call.op = "http_get_ttl"
       => /\ (out.kind = "Err" /\ out.err = "ValueNotFound") => http[bk] = HSuccessInt(-1)
          /\ out.kind = "Ok" => http[bk] = HSuccessInt(out.n)
          /\ (out.kind = "Err" /\ out.err # "ValueNotFound")
               => http[bk].kind = "ErrorResponse" /\ http[bk].err = out.err

\* The handler has answered one backend's ValueNotFound with ttl -1 and
\* another backend's InternalError with an error response.
C19_Witness ==
  /\ last.call.op = "http_get_ttl"
  /\ last.out["b"] = Err("ValueNotFound") /\ http["b"] = HSuccessInt(-1)
  /\ last.out["r"] = Err("InternalError") /\ http["r"].kind = "ErrorResponse"

\* C20: every Storage error becomes a structured error response and no
\* operation panics on a well-formed request: each request of every sequence of
\* well-formed requests, against any backend, ends in a Success or
\* ErrorResponse envelope and never in an abort.
C20_NoAbort ==
  \A bk \in Backends : http[bk].kind \in {"NoResp", "Success", "ErrorResponse"}

\* C21: in the versioned-store backend an expiry-triggered delete performed by
\* get or get_ttl is committed: after get(k) returned None, or get_ttl(k)
\* ValueNotFound, because k's entry was expired, k is absent from the store.
C21_Step ==
  LET k == last'.call.key
  IN (/\ IsCall("get") \/ IsCall("get_ttl")
      /\ Has(Stored("s"), k) /\ Expired(Stored("s")[k], now)
      /\ last'.out["s"] \in {OkNone, Err("ValueNotFound")})
     => k \notin DOMAIN surreal'
C21_SurrealCommitsExpiry == [][C21_Step]_vars

\* C22: in the transactional-engine backend, when get(k) or get_all_keys
\* observes that the entry under k is expired, the entry is deleted from the
\* engine: once the call has returned, a raw read of k finds nothing.
C22_Step ==
  /\ IsCall("get")
       => LET k == last'.call.key
          IN (Has(Stored("r"), k) /\ Expired(Stored("r")[k], now))
             => RawGet(rocks', k) = <<>>
  /\ IsCall("get_all_keys")
       => \A k \in DOMAIN rocks :
            (IsPrefixOf(last'.call.key, k) /\ Expired(Stored("r")[k], now))
              => RawGet(rocks', k) = <<>>
C22_RocksDeletesExpired == [][C22_Step]_vars

\* C23: get(k) on an entry that is not expired leaves the store unchanged on
\* every backend and returns Some with the entry's type and bytes; a second
\* get(k) with no clock advance and no write in between returns the same
\* Some (type, bytes and ttl) as the first.
C23_Step ==
  \A bk \in Backends :
    LET k == last'.call.key
    IN (IsCall("get") /\ Has(Stored(bk), k) /\ ~Expired(Stored(bk)[k], now))
       => /\ Stored(bk)' = Stored(bk)
          /\ last'.out[bk].kind = "Ok"
          /\ Len(last'.out[bk].val) = 1
          /\ last'.out[bk].val[1].value_type = Stored(bk)[k].value_type
          /\ last'.out[bk].val[1].value = Stored(bk)[k].value
          /\ (last.call.op = "get" /\ last.call.key = k /\ last.at = now
                /\ last.out[bk].kind = "Ok" /\ Len(last.out[bk].val) = 1)
             => last'.out[bk] = last.out[bk]
C23_GetIsPure == [][C23_Step]_vars

\* The store the concurrent callers found: the one the setup call left.
RawStore(bk) == IF bk = "b" THEN bredis ELSE IF bk = "r" THEN rocks ELSE surreal
SetupStore(bk) ==
  IF last.call.op = "set"
  THEN RunAlone(bk, EmptyStore, [last.call EXCEPT !.op = "set"], last.at).store
  ELSE EmptyStore
\* The store after caller p's call and then caller q's call, run one after
\* the other from the store the setup left.
SerialStore(bk, p, q) ==
  RunAlone(bk, RunAlone(bk, SetupStore(bk), proc[p], now).store, proc[q], now).store

\* Caller p returned Ok from increment(k) and caller q returned Ok from
\* update_ttl(k, t) or set(k, v), both on the shared instance.
RacedOk(p, q) ==
  /\ mode = "race" /\ calls = CallsIn
  /\ proc[p].pc = "idle" /\ proc[p].done = 1 /\ proc[p].op = "increment"
  /\ proc[q].pc = "idle" /\ proc[q].done = 1 /\ proc[q].op \in {"update_ttl", "set"}
  /\ proc[p].key = proc[q].key
  /\ proc[p].res.kind = "Ok" /\ proc[q].res.kind = "Ok"

\* C24: when update_ttl(k, t) or set(k, v) ran concurrently with
\* increment(k, d, _) and both returned Ok, the stored entry is the one some
\* serial order of the two calls leaves (for update_ttl it carries both the
\* incremented value and the new ttl), on every backend.
C24_SerialOutcome ==
  \A p, q \in Procs :
    RacedOk(p, q)
      => RawStore(backend) \in {SerialStore(backend, p, q), SerialStore(backend, q, p)}

\* C25: increment and decrement on an Integer entry whose bytes are not UTF-8
\* or not the decimal text of an i64 fail with InternalError (not with
\* InvalidValueType, not by aborting) and leave the entry unchanged, on every
\* backend.
C25_Step ==
  \A bk \in Backends :
    LET k == last'.call.key
    IN (/\ IsCall("increment") \/ IsCall("decrement")
        /\ Has(Stored(bk), k)
        /\ Stored(bk)[k].value_type = "Integer"
        /\ ~IsUtf8(Stored(bk)[k].value) \/ ~ParseI64(Stored(bk)[k].value).ok)
       => /\ last'.out[bk] = Err("InternalError")
          /\ Stored(bk)' = Stored(bk)
C25_MalformedInteger == [][C25_Step]_vars

\* C26: in every state reachable through the HTTP handlers, every entry of
\* type Integer holds the decimal ASCII text of an i64, whichever path
\* (set_key, increment, decrement) wrote it, on every backend.
C26_IntegerIsDecimalText ==
  \A bk \in Backends :
    \A k \in DOMAIN Stored(bk) :
      Stored(bk)[k].value_type = "Integer"
        => /\ IsUtf8(Stored(bk)[k].value)
           /\ ParseI64(Stored(bk)[k].value).ok

\* C27: Integer values round-trip through the HTTP interface on every
\* backend: a key the increment/decrement handler has just answered with the
\* integer n is returned by get_by_key as the integer n, and a key set_key has
\* just written with the integer n is answered n + d by increment with d.
C27_Step ==
  \A bk \in Backends :
    LET k == last'.call.key
    IN /\ (/\ IsCall("http_get_by_key")
           /\ last.call.op \in {"http_increment", "http_decrement"}
           /\ last.call.key = k /\ last.at = now
           /\ http[bk].kind = "Success")
          => http'[bk] = HSuccessValue([int |-> TRUE, n |-> http[bk].n, s |-> <<>>])
       /\ (/\ IsCall("http_increment")
           /\ last.call.op = "http_set_key"
           /\ last.call.payload.value_type = "Integer"
           /\ last.call.key = k /\ last.at = now
           /\ http[bk].kind = "Success")
          => http'[bk] = HSuccessInt(from_be_bytes(last.call.payload.value) + last'.call.delta)
C27_IntegerRoundTrip == [][C27_Step]_vars

\* C28: increment and decrement treat an expired entry as absent, on every
\* backend: with no default the call fails with ValueNotFound; with
\* Some(def) it creates a fresh Integer entry def + d (def - d for decrement)
\* that has no expiry, and returns it.
C28_Step ==
  \A bk \in Backends :
    LET c == last'.call
        k == c.key
        signed == IF c.op = "increment" THEN c.delta ELSE 0 - c.delta
    IN (/\ IsCall("increment") \/ IsCall("decrement")
        /\ Has(Stored(bk), k) /\ Expired(Stored(bk)[k], now))
       => IF c.default_value = <<>>
          THEN last'.out[bk] = Err("ValueNotFound")
          ELSE LET fresh == StorageValue("Integer", -1, to_string(c.default_value[1] + signed))
               IN /\ last'.out[bk] = OkSome(fresh)
                  /\ Has(Stored(bk)', k) /\ Stored(bk)'[k] = fresh
C28_CounterOnExpired == [][C28_Step]_vars

\* C29: update_ttl treats an expired entry as absent, on every backend: it
\* fails with ValueNotFound and leaves the entry expired (or removes it), so
\* it never makes an expired value readable again.
C29_Step ==
  \A bk \in Backends :
    LET k == last'.call.key
    IN (IsCall("update_ttl") /\ Has(Stored(bk), k) /\ Expired(Stored(bk)[k], now))
       => /\ last'.out[bk] = Err("ValueNotFound")
          /\ Has(Stored(bk)', k) => Expired(Stored(bk)'[k], now)
C29_UpdateTtlOnExpired == [][C29_Step]_vars

\* What get(k) and get_ttl(k) of backend bk return from the current state.
GetNow(bk, k) ==
  IF bk = "b" THEN BredisCall(poisoned, bredis, Bredis_get(bredis, k, now)).res
  ELSE IF bk = "r" THEN Rocks_get(rocks, k, now).res
  ELSE Surreal_get(surreal, k, now).res
GetTtlNow(bk, k) ==
  IF bk = "b" THEN BredisCall(poisoned, bredis, Bredis_get_ttl(bredis, k, now)).res
  ELSE IF bk = "r" THEN Rocks_get_ttl(rocks, k, now).res
  ELSE Surreal_get_ttl(surreal, k, now).res
IsSome(res) == res.kind = "Ok" /\ res.val # <<>>

\* C30: on each backend get and get_ttl agree on expiry: for an entry with a
\* finite ttl, a get(k) call returns Some exactly when get_ttl(k) from the same
\* state returns Ok, and a get_ttl(k) call returns Ok exactly when get(k) from
\* the same state returns Some; at a remaining lifetime of exactly 0 neither
\* does.
C30_Step ==
  \A bk \in Backends :
    LET k == last'.call.key
    IN (Has(Stored(bk), k) /\ Stored(bk)[k].ttl >= 0)
       => /\ IsCall("get")
               => /\ IsSome(last'.out[bk]) <=> GetTtlNow(bk, k).kind = "Ok"
                  /\ Stored(bk)[k].ttl = now => ~IsSome(last'.out[bk])
          /\ IsCall("get_ttl")
               => /\ last'.out[bk].kind = "Ok" <=> IsSome(GetNow(bk, k))
                  /\ Stored(bk)[k].ttl = now => last'.out[bk].kind # "Ok"
C30_GetAgreesWithGetTtl == [][C30_Step]_vars

\* The keys the setup left on the shared instance: the contract calls of the
\* setup wrote every backend alike, and the callers touch only the shared one.
SetupKeys == IF backend = "r" THEN DOMAIN surreal ELSE DOMAIN rocks

\* Caller p has returned Ok from get_all_keys(pr), its first call, while
\* caller q was, is or will be in delete_prefix(pr) of the same prefix, the
\* only other call on the instance.
ScannedBesideDelete(p, q) ==
  /\ mode = "par" /\ calls = CallsIn
  /\ proc[p].pc = "idle" /\ proc[p].done = 1 /\ proc[p].op = "get_all_keys"
  /\ proc[p].res.kind = "Ok"
  /\ proc[q].op = "delete_prefix" /\ proc[q].key = proc[p].key
  /\ proc[q].done + (IF proc[q].pc = "idle" THEN 0 ELSE 1) <= 1

\* C31: a get_all_keys(p) that runs concurrently with delete_prefix(p) on the
\* same instance returns either all of the keys under p that existed before
\* the deletion or none of them, never a non-empty strict subset, on every
\* backend.
C31_AllOrNothing ==
  \A p, q \in Procs :
    ScannedBesideDelete(p, q)
      => LET under == {k \in SetupKeys : IsPrefixOf(proc[p].key, k)}
             got == {k \in Range(proc[p].res.keys) : IsPrefixOf(proc[p].key, k)}
         IN got = under \/ got = {}

\* A get_all_keys on the transactional-engine backend has returned both keys
\* of the store although the delete_prefix of the same prefix emptied the
\* store while the scan was running.
C31_Witness ==
  \E p, q \in Procs :
    /\ ScannedBesideDelete(p, q)
    /\ backend = "r" /\ proc[p].raced
    /\ proc[q].pc = "idle" /\ proc[q].res = OkUnit
    /\ Range(proc[p].res.keys) = Keys
    /\ rocks = EmptyStore

\* Caller p of the transactional-engine backend is at txn.commit() and the key
\* its transaction tracks has been written by another caller since.
CommitConflicts(p) ==
  /\ backend = "r"
  /\ proc[p].pc = "commit"
  /\ proc[p].op \in {"update_ttl", "increment", "decrement"}
  /\ seqno[proc[p].key] # proc[p].seen

\* C32: in the transactional-engine backend, when the optimistic transaction
\* of an update_ttl, increment or decrement call fails to commit because of a
\* conflicting concurrent write, the call returns InternalError, is not run
\* again by the backend, and has no effect on the store.
C32_Step ==
  \A p \in Procs :
    (CommitConflicts(p) /\ proc'[p] # proc[p])
      => /\ proc'[p].pc = "idle"
         /\ proc'[p].done = proc[p].done + 1
         /\ proc'[p].res = Err("InternalError")
         /\ rocks' = rocks
C32_ConflictIsInternalError == [][C32_Step]_vars

\* An update_ttl has returned InternalError beside a set of the same key that
\* returned Ok, and the store holds the entry the set wrote.
C32_Witness ==
  \E p, q \in Procs :
    /\ mode = "race" /\ backend = "r"
    /\ proc[p].pc = "idle" /\ proc[p].op = "update_ttl"
    /\ proc[p].res = Err("InternalError")
    /\ proc[q].pc = "idle" /\ proc[q].op = "set" /\ proc[q].res = OkUnit
    /\ proc[q].key = proc[p].key
    /\ Has(rocks, proc[p].key)
    /\ rocks[proc[p].key] = Rocks_set(EmptyStore, proc[q].key, SetValue(proc[q]), now).store[proc[q].key]

\* Both callers of the in-memory instance have made their one call and returned.
BothReturned ==
  /\ mode = "par" /\ backend = "b" /\ calls = CallsIn
  /\ \A p \in Procs : proc[p].pc = "idle" /\ proc[p].done = 1

\* The results of the two callers, the map and the state of the lock are what
\* caller p's call followed by caller q's call gives, run one at a time from
\* the map the setup left.
Linearized(p, q) ==
  LET s0 == Stored("r")
      c1 == BredisCall(FALSE, s0, RunAlone("b", s0, proc[p], now))
      c2 == BredisCall(c1.poisoned, c1.store, RunAlone("b", c1.store, proc[q], now))
  IN /\ proc[p].res = c1.res
     /\ proc[q].res = c2.res
     /\ bredis = c2.store
     /\ poisoned = c2.poisoned

\* C33: the in-memory backend totally serializes the operations on one
\* instance: a concurrent execution of two contract calls gives the results and
\* the final map of the two calls run one at a time, in an order in which a
\* call that returned before the other was made comes first.
C33_Serialized ==
  BothReturned
    => \E p, q \in Procs :
         /\ p # q
         /\ q \notin proc[p].after
         /\ Linearized(p, q)

\* Two increments of the same key were inside their calls at the same time,
\* both returned Ok, and they returned different values.
C33_Witness ==
  /\ BothReturned
  /\ \A p \in Procs :
       proc[p].op = "increment" /\ proc[p].after = {} /\ proc[p].res.kind = "Ok"
  /\ proc[1].key = proc[2].key
  /\ proc[1].res # proc[2].res

\* C34: an operation that fails or aborts on the in-memory backend never
\* leaves the instance unusable: after every call, whatever its outcome, the
\* lock is not poisoned, and a call made after a failed or aborted call does
\* not abort at the acquisition of the lock.
C34_Step ==
  /\ ~poisoned'
  /\ (calls' = calls + 1 /\ last.out["b"].kind \in {"Err", "Panic"})
       => last'.out["b"].kind # "Panic"
C34_LockStaysUsable == [][C34_Step]_vars

SingleKeyOps == {"get", "get_ttl", "update_ttl", "set", "increment", "decrement", "delete"}

\* C35: every single-key operation (get, get_ttl, update_ttl, set, increment,
\* decrement, delete) on key k changes at most the entry stored under k, on
\* every backend: the entries under all other keys, a key whose bytes equal
\* the value bytes stored under k included, are the same after the call as
\* before it, whether the call succeeds or fails.
C35_Step ==
  (calls' = calls + 1 /\ last'.call.op \in SingleKeyOps)
    => \A bk \in Backends :
         \A k2 \in (DOMAIN Stored(bk) \cup DOMAIN Stored(bk)') \ {last'.call.key} :
           /\ Has(Stored(bk), k2) /\ Has(Stored(bk)', k2)
           /\ Stored(bk)'[k2] = Stored(bk)[k2]
C35_SingleKeyFrame == [][C35_Step]_vars

\* get(k) has just found the entry under k expired on the transactional-engine
\* backend while another key of the store is named by k's value bytes, and
\* that other key is still there.
C35_Witness ==
  LET k == last.call.key
  IN /\ last.call.op = "get" /\ last.out["r"] = OkNone
     /\ Has(rocks, k) /\ Expired(from_binary(rocks[k]), last.at)
     /\ from_binary(rocks[k]).value # k
     /\ Has(rocks, from_binary(rocks[k]).value)

\* C36: the physical resource of a backend instance is released exactly once;
\* for Rocksdb, whose handle is cloneable and whose destructor calls close, the
\* on-disk data is destroyed once, after the last handle has gone: never while
\* another handle is live, and always by the time no handle is left.
C36_DestroyedOnceAtEnd ==
  /\ life.early = 0
  /\ life.destroys <= 1
  /\ life.handles = 0 => life.disk = "destroyed" /\ life.destroys = 1

\* C37: for a prefix p and a UTF-8 key k, k lies in [p, p ++ 0xFF) iff k starts
\* with p; so get_all_keys and delete_prefix of Rocksdb and SurrealKV select
\* the stored keys that start with the prefix, as the starts_with filter of
\* Bredis does: get_all_keys returns only such keys and all the unexpired
\* ones, delete_prefix removes exactly such keys.
StartingWith(store, prefix) == {k \in DOMAIN store : IsPrefixOf(prefix, k)}
C37_Step ==
  /\ \A prefix \in Prefixes, k \in Keys :
       IsUtf8(k) => (InPrefixRange(prefix, k) <=> IsPrefixOf(prefix, k))
  /\ \A bk \in {"r", "s"} :
       LET prefix == last'.call.key
           keys == last'.out[bk].keys
       IN /\ (IsCall("get_all_keys") /\ last'.out[bk].kind = "Ok")
               => /\ Range(keys) \subseteq StartingWith(Stored(bk), prefix)
                  /\ \A k \in StartingWith(Stored(bk), prefix) :
                       ~Expired(Stored(bk)[k], now) => k \in Range(keys)
          /\ (IsCall("delete_prefix") /\ last'.out[bk].kind = "Ok")
               => DOMAIN Stored(bk)' = DOMAIN Stored(bk) \ StartingWith(Stored(bk), prefix)
C37_RangeIsStartsWith == [][C37_Step]_vars

\* C38: the StorageValue a successful increment/decrement returns is exactly
\* the entry that call persisted under the key, on every backend: the same
\* value_type and value bytes as a raw read of the store right after the call,
\* and the ttl in its raw stored form (the absolute instant or -1).
C38_Step ==
  \A bk \in Backends :
    LET k == last'.call.key
        out == last'.out[bk]
    IN ((IsCall("increment") \/ IsCall("decrement")) /\ out.kind = "Ok")
         => /\ Has(Stored(bk)', k)
            /\ out.val = <<Stored(bk)'[k]>>
            /\ bk = "r" => rocks'[k] = to_binary(out.val[1])
            /\ bk = "s" => surreal'[k] = to_binary(out.val[1])
C38_ReturnsPersisted == [][C38_Step]_vars
\* a decrement that succeeded on the three backends on an entry with a finite
\* ttl: what it returned carries the absolute expiry instant, one second ahead
\* of the call's clock, which is also what the store holds
C38_Witness ==
  /\ last.call.op = "decrement"
  /\ \A bk \in Backends :
       /\ last.out[bk].kind = "Ok"
       /\ last.out[bk].val # <<>>
       /\ last.out[bk].val[1].ttl = last.at + 1
       /\ last.out[bk].val[1].ttl > StartTime
       /\ Has(Stored(bk), last.call.key)
       /\ Stored(bk)[last.call.key] = last.out[bk].val[1]

\* C39: under fair scheduling every contract call, on every backend and also
\* beside a concurrent caller of the same instance, eventually returns Ok or
\* Err: none deadlocks or waits forever on the lock or on a transaction.
C39_ReturnsOkOrErr ==
  \A p \in Procs :
    (proc[p].pc # "idle") ~> (proc[p].pc = "idle" /\ proc[p].res.kind \in {"Ok", "Err"})

====
